---- MODULE Spec2Model ----
(***************************************************************************)
(* A state-machine model of google-auth-library-nodejs (ofrobots fork):    *)
(*   - GoogleAuth: application-default-credentials resolution, project-id  *)
(*     resolution, platform (GCE) detection         (src/auth/googleauth.ts) *)
(*   - Compute: the metadata-server token client  (src/auth/computeclient.ts)*)
(* Every asynchronous function is cut at its awaits: one action per        *)
(* synchronous segment, one caller record per call in flight.              *)
(*                                                                         *)
(* JavaScript values are written as strings: "undefined", "null", "" (the  *)
(* empty string) are the falsy ones, every other string is truthy.         *)
(***************************************************************************)
EXTENDS Integers, Sequences, FiniteSets, TLC

\* ------------------------------------------------------------------------
\* JavaScript truthiness of the string-encoded values
\* ------------------------------------------------------------------------
Falsy(v) == v \in {"undefined", "null", "", "false"}

Truthy(v) == ~Falsy(v)

\* a || b
Or(a, b) == IF Truthy(a) THEN a ELSE b

\* ------------------------------------------------------------------------
\* Credential descriptions (the JSON objects a credential file holds)
\* ------------------------------------------------------------------------
\* A field that is absent from the JSON object reads as "undefined".
Desc(id) ==
  CASE id = "env_sa" ->
         [type |-> "service_account", client_id |-> "undefined",
          client_secret |-> "undefined", refresh_token |-> "undefined",
          client_email |-> "env@sa", private_key |-> "envkey",
          project_id |-> "pf"]
    [] id = "env_sa_nopid" ->
         [type |-> "service_account", client_id |-> "undefined",
          client_secret |-> "undefined", refresh_token |-> "undefined",
          client_email |-> "env@sa", private_key |-> "envkey",
          project_id |-> "undefined"]
    [] id = "env_user" ->
         [type |-> "authorized_user", client_id |-> "envid",
          client_secret |-> "envsecret", refresh_token |-> "envrt",
          client_email |-> "undefined", private_key |-> "undefined",
          project_id |-> "pu"]
    [] id = "env_invalid" ->
         [type |-> "service_account", client_id |-> "undefined",
          client_secret |-> "undefined", refresh_token |-> "undefined",
          client_email |-> "env@sa", private_key |-> "undefined",
          project_id |-> "pf"]
    [] id = "wk_sa" ->
         [type |-> "service_account", client_id |-> "undefined",
          client_secret |-> "undefined", refresh_token |-> "undefined",
          client_email |-> "wk@sa", private_key |-> "wkkey",
          project_id |-> "pw"]
    [] id = "wk_user" ->
         [type |-> "authorized_user", client_id |-> "wkid",
          client_secret |-> "wksecret", refresh_token |-> "wkrt",
          client_email |-> "undefined", private_key |-> "undefined",
          project_id |-> "undefined"]
    [] OTHER ->  \* "wk_invalid": an authorized_user file without refresh_token
         [type |-> "authorized_user", client_id |-> "wkid",
          client_secret |-> "wksecret", refresh_token |-> "undefined",
          client_email |-> "undefined", private_key |-> "undefined",
          project_id |-> "undefined"]

EnvDescIds == {"env_sa", "env_sa_nopid", "env_user", "env_invalid"}

WKDescIds == {"wk_sa", "wk_user", "wk_invalid"}

\* What can be at a path: nothing ("absent"), a file whose stream emits
\* 'error' ("streamerr"), a file that is not JSON ("badjson"), a file
\* holding the JSON text null ("nulljson"), or a file holding a description.
EnvFileStates == {"absent", "streamerr", "badjson", "nulljson"} \cup EnvDescIds

WKFileStates == {"absent", "streamerr", "badjson"} \cup WKDescIds

NullJson == [type |-> "null", client_id |-> "undefined",
             client_secret |-> "undefined", refresh_token |-> "undefined",
             client_email |-> "undefined", private_key |-> "undefined",
             project_id |-> "undefined"]

\* ------------------------------------------------------------------------
\* Credential objects
\* ------------------------------------------------------------------------
NoCred == [kind |-> "null", email |-> "undefined", key |-> "undefined",
           projectId |-> "undefined", clientId |-> "undefined",
           clientSecret |-> "undefined", refreshToken |-> "undefined"]

\* new Compute(): the resolver's view of it (its token state is modelled
\* with the request engine below).
NewCompute == [NoCred EXCEPT !.kind = "Compute",
                             !.refreshToken = "compute-placeholder"]

\* UserRefreshClient.fromJSON, throwing form: [ok, client].
UserRefreshClient_fromJSON(json) ==
  IF json = NullJson THEN [ok |-> FALSE, err |-> "NoJson", client |-> NoCred]
  ELSE IF json.type # "authorized_user"
    THEN [ok |-> FALSE, err |-> "NotAuthorizedUser", client |-> NoCred]
  ELSE IF Falsy(json.client_id)
    THEN [ok |-> FALSE, err |-> "NoClientId", client |-> NoCred]
  ELSE IF Falsy(json.client_secret)
    THEN [ok |-> FALSE, err |-> "NoClientSecret", client |-> NoCred]
  ELSE IF Falsy(json.refresh_token)
    THEN [ok |-> FALSE, err |-> "NoRefreshToken", client |-> NoCred]
  ELSE [ok |-> TRUE, err |-> "none",
        client |-> [NoCred EXCEPT !.kind = "UserRefreshClient",
                                  !.clientId = json.client_id,
                                  !.clientSecret = json.client_secret,
                                  !.refreshToken = json.refresh_token]]

\* JWT.fromJSON (jwtclient.ts): fails without client_email or private_key,
\* otherwise takes email, key and project id from the description.
JWT_fromJSON(json) ==
  IF json = NullJson THEN [ok |-> FALSE, err |-> "NoJson", client |-> NoCred]
  ELSE IF Falsy(json.client_email)
    THEN [ok |-> FALSE, err |-> "NoClientEmail", client |-> NoCred]
  ELSE IF Falsy(json.private_key)
    THEN [ok |-> FALSE, err |-> "NoPrivateKey", client |-> NoCred]
  ELSE [ok |-> TRUE, err |-> "none",
        client |-> [NoCred EXCEPT !.kind = "JWT",
                                  !.email = json.client_email,
                                  !.key = json.private_key,
                                  !.projectId = json.project_id]]

\* GoogleAuth.fromJSON choosing the variant by the fields the description
\* carries.
GoogleAuth_fromJSON_ByFields(json, jsonBefore) ==
  IF json = NullJson
    THEN [ok |-> FALSE, err |-> "NoJson", client |-> NoCred,
          jsonContent |-> jsonBefore]
    ELSE LET r == IF Truthy(json.refresh_token)
                    THEN UserRefreshClient_fromJSON(json)
                    ELSE JWT_fromJSON(json)
         IN  [ok |-> r.ok, err |-> r.err, client |-> r.client,
              jsonContent |-> json]

\* GoogleAuth.fromJSON: [ok, err, client, jsonContent] where jsonContent is
\* the value of this.jsonContent after the call, given its value before.
GoogleAuth_fromJSON(json, jsonBefore) ==
  IF json = NullJson
    THEN [ok |-> FALSE, err |-> "NoJson", client |-> NoCred,
          jsonContent |-> jsonBefore]
    ELSE LET r == IF json.type = "authorized_user"
                    THEN UserRefreshClient_fromJSON(json)
                    ELSE JWT_fromJSON(json)
         IN  [ok |-> r.ok, err |-> r.err, client |-> r.client,
              jsonContent |-> json]

\* JSON.parse of a file's content followed by GoogleAuth.fromJSON: the 'end'
\* handler of fromStreamAsync.
StreamEnd(content, jsonBefore) ==
  IF content = "badjson"
    THEN [ok |-> FALSE, err |-> "SyntaxError", client |-> NoCred,
          jsonContent |-> jsonBefore]
    ELSE GoogleAuth_fromJSON(IF content = "nulljson" THEN NullJson
                             ELSE Desc(content), jsonBefore)

\* ------------------------------------------------------------------------
\* State
\* ------------------------------------------------------------------------
VARIABLES
  env,               \* process environment and file system
  checkIsGCE,        \* GoogleAuth.checkIsGCE: "undefined", "null", "true", "false"
  cachedProjectId,   \* GoogleAuth._cachedProjectId
  cachedCredential,  \* GoogleAuth.cachedCredential (NoCred is null)
  jsonContent,       \* GoogleAuth.jsonContent (NullJson is null)
  pc,                \* per caller: where its call in flight stands
  fr,                \* per caller: the locals of its call
  result,            \* per caller: what its last call returned or threw
  log                \* per caller: what its call in flight has touched

resolverVars == <<checkIsGCE, cachedProjectId, cachedCredential, jsonContent>>

callVars == <<pc, fr, result, log>>

Callers == {"c1", "c2"}

\* The locals of a call, and what it has observed so far: read is the content
\* its last stream read, probe the answer its detection probe got, gce what
\* _checkIsGCE handed it ("threw" when it threw), sdk how the gcloud command
\* it ran ended, seen the project-id sources it has consulted, in order, each
\* with the value it yielded.
NoFrame == [op |-> "none", loaded |-> NoCred, file |-> "none", ret |-> "none",
            adcCred |-> NoCred, pidCred |-> NoCred,
            read |-> "none", probe |-> "none", gce |-> "none", sdk |-> "none",
            listing |-> "none", seen |-> <<>>]

NoResult == [status |-> "none", cred |-> NoCred, projectId |-> "undefined",
             value |-> "undefined", err |-> "none"]

\* The environments a run starts in. HOME and APPDATA are set one at a time,
\* so that reading the wrong one for the platform shows.
Platforms == {"linux", "win32"}

Roots == {[platform |-> "linux", home |-> "/home/u", appdata |-> "undefined"],
          [platform |-> "win32", home |-> "/home/u", appdata |-> "undefined"],
          [platform |-> "win32", home |-> "undefined", appdata |-> "C:/a"]}

CredFiles ==
  {[credPath |-> "undefined", credFile |-> "absent"]} \cup
  [credPath : {"/path/cred.json"}, credFile : EnvFileStates]

ProjectVars == {[gcloud |-> "undefined", googleCloud |-> "undefined"],
                [gcloud |-> "undefined", googleCloud |-> "pc"],
                [gcloud |-> "pg", googleCloud |-> "pc"]}

\* Where there is no directory for the well-known file there is no file.
WKFilesUnder(r) ==
  IF r.platform = "win32" /\ r.appdata = "undefined" THEN {"absent"}
  ELSE WKFileStates

InitEnvs ==
  UNION {{[platform |-> r.platform, home |-> r.home, appdata |-> r.appdata,
           credPath |-> f.credPath, credFile |-> f.credFile, wkFile |-> w,
           gcloud |-> p.gcloud, googleCloud |-> p.googleCloud] :
            f \in CredFiles, w \in WKFilesUnder(r), p \in ProjectVars} :
         r \in Roots}

\* ------------------------------------------------------------------------
\* Mockable accessors of GoogleAuth
\* ------------------------------------------------------------------------
_getEnv(e, name) ==
  CASE name = "GOOGLE_APPLICATION_CREDENTIALS" -> e.credPath
    [] name = "HOME" -> e.home
    [] name = "APPDATA" -> e.appdata
    [] name = "GCLOUD_PROJECT" -> e.gcloud
    [] OTHER -> e.googleCloud   \* GOOGLE_CLOUD_PROJECT

\* sys.substring(0, 3).toLowerCase() === 'win' over the platforms of Platforms
_isWindows(e) == e.platform = "win32"

\* The root the well-known path is built from, "null" when there is none.
WellKnownRoot(e) ==
  IF _isWindows(e) THEN _getEnv(e, "APPDATA")
  ELSE IF Truthy(_getEnv(e, "HOME")) THEN _getEnv(e, "HOME") ELSE "null"

\* getProductionProjectId reading the two variables in the other order.
getProductionProjectId_Swapped(e) ==
  Or(_getEnv(e, "GOOGLE_CLOUD_PROJECT"), _getEnv(e, "GCLOUD_PROJECT"))

getProductionProjectId(e) ==
  Or(_getEnv(e, "GCLOUD_PROJECT"), _getEnv(e, "GOOGLE_CLOUD_PROJECT"))

\* ------------------------------------------------------------------------
\* Synchronous segments. A segment maps the caller's view
\*   S = [pc, fr, res, log, cpid, ccred]
\* (cpid, ccred: _cachedProjectId and cachedCredential) to the view it leaves.
\* ------------------------------------------------------------------------
Throw(S, e) ==
  [S EXCEPT !.pc = "done",
            !.res = [NoResult EXCEPT !.status = "error", !.err = e]]

\* The environment-variable loader resolving null for a missing file, the
\* way its own try/catch suggests, instead of throwing.
TryEnv_Swallow(S, e, ret) ==
  LET credentialsPath == _getEnv(e, "GOOGLE_APPLICATION_CREDENTIALS") IN
  IF Falsy(credentialsPath)
    THEN [S EXCEPT !.pc = ret, !.fr.loaded = NoCred]
    ELSE LET T == [S EXCEPT !.log = @ \cup {"envFile"}] IN
         IF e.credFile = "absent"
           THEN [T EXCEPT !.pc = ret, !.fr.loaded = NoCred]
           ELSE [T EXCEPT !.pc = "stream", !.fr.file = "env", !.fr.ret = ret]

\* _tryGetApplicationCredentialsFromEnvironmentVariable up to its await:
\* resolves null without a path, otherwise
\* _getApplicationCredentialsFromFilePath checks the file and opens a stream.
TryEnv(S, e, ret) ==
  LET credentialsPath == _getEnv(e, "GOOGLE_APPLICATION_CREDENTIALS") IN
  IF Falsy(credentialsPath)
    THEN [S EXCEPT !.pc = ret, !.fr.loaded = NoCred]
    ELSE LET T == [S EXCEPT !.log = @ \cup {"envFile"}] IN
         IF e.credFile = "absent"
           THEN Throw(T, "FileNotExist")
           ELSE [T EXCEPT !.pc = "stream", !.fr.file = "env", !.fr.ret = ret]

\* The well-known loader without its existence check: a missing file throws,
\* as it does for the file the environment variable names.
TryWellKnown_NoExistsCheck(S, e, ret) ==
  LET location == WellKnownRoot(e) IN
  IF Falsy(location)
    THEN [S EXCEPT !.pc = ret, !.fr.loaded = NoCred]
    ELSE LET T == [S EXCEPT !.log = @ \cup {"wkExists"}] IN
         IF e.wkFile = "absent"
           THEN Throw(T, "FileNotExist")
           ELSE [T EXCEPT !.pc = "stream", !.fr.file = "wk", !.fr.ret = ret,
                          !.log = @ \cup {"wkFile"}]

\* _tryGetApplicationCredentialsFromWellKnownFile up to its await.
TryWellKnown(S, e, ret) ==
  LET location == WellKnownRoot(e) IN
  IF Falsy(location)
    THEN [S EXCEPT !.pc = ret, !.fr.loaded = NoCred]
    ELSE LET T == [S EXCEPT !.log = @ \cup {"wkExists"}] IN
         IF e.wkFile = "absent"
           THEN [T EXCEPT !.pc = ret, !.fr.loaded = NoCred]
           ELSE [T EXCEPT !.pc = "stream", !.fr.file = "wk", !.fr.ret = ret,
                          !.log = @ \cup {"wkFile"}]

\* The value a finished getDefaultProjectIdAsync hands back: to
\* getApplicationDefaultAsync, which returns {credential, projectId}, or to
\* the caller of getDefaultProjectId.
PidReturn(S, v) ==
  [S EXCEPT !.pc = "done",
            !.res = [NoResult EXCEPT !.status = "ok", !.projectId = v,
                                     !.cred = S.fr.adcCred]]

\* if (projectId) this._cachedProjectId = projectId; return projectId
PidFinish(S, projectId) ==
  PidReturn([S EXCEPT !.cpid = IF Truthy(projectId) THEN projectId ELSE @],
            projectId)

\* A project-id source that was consulted, and the value it yielded.
Src(name, v) == [src |-> name, val |-> v]

\* getDefaultProjectIdAsync up to its first await.
PidBeginMemoLess(S, e) ==
  LET prod == getProductionProjectId(e)
      gcloud == _getEnv(e, "GCLOUD_PROJECT")
      T == [S EXCEPT !.log = @ \cup {"envProject"},
                     !.fr.seen = @ \o
                       (IF Truthy(gcloud)
                          THEN <<Src("GCLOUD_PROJECT", gcloud)>>
                          ELSE <<Src("GCLOUD_PROJECT", gcloud),
                                 Src("GOOGLE_CLOUD_PROJECT",
                                     _getEnv(e, "GOOGLE_CLOUD_PROJECT"))>>)]
  IN  IF Truthy(prod) THEN PidFinish(T, prod)
      ELSE \* getFileProjectId
           LET U == [T EXCEPT !.log = @ \cup {"fileProject"}] IN
           IF U.ccred # NoCred
             THEN [U EXCEPT !.pc = "pid_afterFile", !.fr.pidCred = U.ccred]
             ELSE TryEnv(U, e, "pid_afterFile")

PidBegin(S, e) ==
  IF Truthy(S.cpid) THEN PidReturn(S, S.cpid)
  ELSE PidBeginMemoLess(S, e)

\* ------------------------------------------------------------------------
\* What the outside world can answer
\* ------------------------------------------------------------------------
\* The detection probe (GET http://metadata.google.internal): a response
\* with the header metadata-flavor: Google, one with other headers, one whose
\* headers are undefined, a null response, or a failure with an error code.
ProbeOutcomes == {"google", "noflavor", "noheaders", "nullres",
                  "ENOTFOUND", "ECONNRESET"}

ProbeFails(o) == o \in {"ENOTFOUND", "ECONNRESET"}

\* res && res.headers && res.headers['metadata-flavor'] === 'Google'
FlavorIsGoogle(o) ==
  CASE o = "nullres" -> "null"
    [] o = "noheaders" -> "undefined"
    [] o = "google" -> "true"
    [] OTHER -> "false"

\* _checkIsGCE answering false to every failed probe.
CheckIsGCEOn_Swallow(o) ==
  IF ProbeFails(o)
    THEN [throws |-> FALSE, value |-> "false"]
    ELSE [throws |-> FALSE, value |-> FlavorIsGoogle(o)]

\* What _checkIsGCE does with a probe outcome: [throws, value], value being
\* what it stores in checkIsGCE (and returns) when it does not throw.
CheckIsGCEOn(o) ==
  IF ProbeFails(o)
    THEN IF o # "ENOTFOUND"
           THEN [throws |-> TRUE, value |-> "undefined"]
           ELSE [throws |-> FALSE, value |-> "false"]
    ELSE [throws |-> FALSE, value |-> FlavorIsGoogle(o)]

\* The gcloud command: it fails, prints nothing, prints text that is not
\* JSON, JSON without core, JSON without core.project, or a project.
SdkOutcomes == {"execerr", "nostdout", "badjson", "nocore", "noproject", "ps"}

\* The outcomes in which the command yields no project.
SdkFailures == SdkOutcomes \ {"ps"}

\* getDefaultServiceProjectId without its try/catch: the command's error, the
\* SyntaxError of JSON.parse and the TypeError of reading core.project throw.
getDefaultServiceProjectId_NoCatch(o) ==
  CASE o = "ps" -> [throws |-> FALSE, value |-> "ps"]
    [] o = "noproject" -> [throws |-> FALSE, value |-> "undefined"]
    [] o = "nostdout" -> [throws |-> FALSE, value |-> "null"]
    [] OTHER -> [throws |-> TRUE, value |-> "undefined"]

\* getDefaultServiceProjectId: [throws, value]. Its catch ignores every
\* error, so it never throws.
getDefaultServiceProjectId(o) ==
  CASE o = "ps" -> [throws |-> FALSE, value |-> "ps"]
    [] o = "noproject" -> [throws |-> FALSE, value |-> "undefined"]
    [] OTHER -> [throws |-> FALSE, value |-> "null"]

\* The metadata project-id request: it fails, answers empty data, or a project.
GceProjectOutcomes == {"err", "empty", "pm"}

\* getGCEProjectId
getGCEProjectId(o) ==
  CASE o = "pm" -> "pm"
    [] o = "empty" -> ""
    [] OTHER -> "null"

\* The catch of getApplicationDefaultAsync rewraps what its try block threw.
Unexpected(e) ==
  CASE e = "CouldNotLoad" -> "Unexpected: CouldNotLoad"
    [] OTHER -> "Unexpected: ProbeError"

\* ------------------------------------------------------------------------
\* Actions
\* ------------------------------------------------------------------------
View(c) == [pc |-> pc[c], fr |-> fr[c], res |-> result[c], log |-> log[c],
            cpid |-> cachedProjectId, ccred |-> cachedCredential]

Fresh(op) == [pc |-> "idle", fr |-> [NoFrame EXCEPT !.op = op],
              res |-> NoResult, log |-> {},
              cpid |-> cachedProjectId, ccred |-> cachedCredential]

Apply(c, S) ==
  /\ pc' = [pc EXCEPT ![c] = S.pc]
  /\ fr' = [fr EXCEPT ![c] = IF S.pc \in {"done", "crashed"}
                               THEN [S.fr EXCEPT !.loaded = NoCred,
                                                 !.file = "none",
                                                 !.ret = "none",
                                                 !.adcCred = NoCred,
                                                 !.pidCred = NoCred]
                               ELSE S.fr]
  /\ result' = [result EXCEPT ![c] = S.res]
  /\ log' = [log EXCEPT ![c] = S.log]
  /\ cachedProjectId' = S.cpid
  /\ cachedCredential' = S.ccred

Crashed == \E c \in Callers : pc[c] = "crashed"

CanStart(c) == pc[c] \in {"idle", "done"} /\ ~Crashed

\* getApplicationDefaultAsync running its chain whatever is cached.
AdcBegin_NoCache(S, e) == TryEnv(S, e, "adc_afterEnv")

\* getApplicationDefaultAsync up to its first await.
AdcBegin(S, e) ==
  IF S.ccred # NoCred
    THEN [S EXCEPT !.pc = "done",
                   !.res = [NoResult EXCEPT !.status = "ok", !.cred = S.ccred,
                                            !.projectId = S.cpid]]
    ELSE TryEnv(S, e, "adc_afterEnv")

GetApplicationDefault(c) ==
  /\ CanStart(c)
  /\ Apply(c, AdcBegin(Fresh("adc"), env))
  /\ UNCHANGED <<env, checkIsGCE, jsonContent>>

\* A credential found, and the chain going on to the well-known file anyway.
AdcFound_FallsThrough(S, e) == TryWellKnown(S, e, "adc_afterWK")

\* A credential found, and the project id taken from its own file instead of
\* asked of getDefaultProjectId.
AdcFound_OwnProject(S, e) ==
  PidReturn([S EXCEPT !.ccred = S.fr.loaded, !.fr.adcCred = S.fr.loaded,
                      !.log = @ \cup {"cacheWrite"}], S.fr.loaded.projectId)

\* if (credential) { this.cachedCredential = credential;
\*                   projectId = await this.getDefaultProjectId(); ... }
AdcFound(S, e) ==
  PidBegin([S EXCEPT !.ccred = S.fr.loaded, !.fr.adcCred = S.fr.loaded,
                     !.log = @ \cup {"cacheWrite"}], e)

AdcAfterEnv(c) ==
  /\ pc[c] = "adc_afterEnv"
  /\ Apply(c, IF fr[c].loaded # NoCred
                THEN AdcFound(View(c), env)
                ELSE TryWellKnown(View(c), env, "adc_afterWK"))
  /\ UNCHANGED <<env, checkIsGCE, jsonContent>>

\* The end of getApplicationDefaultAsync testing gce !== false.
AdcOnGCE_NotFalse(S, gce) ==
  IF gce # "false"
    THEN [S EXCEPT !.pc = "done",
                   !.res = [NoResult EXCEPT !.status = "ok",
                                            !.cred = NewCompute,
                                            !.projectId = "null"]]
    ELSE Throw(S, Unexpected("CouldNotLoad"))

\* The end of getApplicationDefaultAsync, once _checkIsGCE has returned gce.
AdcOnGCE_Cached(S, gce) ==
  IF Truthy(gce)
    THEN [S EXCEPT !.pc = "done", !.ccred = NewCompute,
                   !.res = [NoResult EXCEPT !.status = "ok",
                                            !.cred = NewCompute,
                                            !.projectId = "null"]]
    ELSE Throw(S, Unexpected("CouldNotLoad"))

AdcOnGCE(S, gce) ==
  IF Truthy(gce)
    THEN [S EXCEPT !.pc = "done",
                   !.res = [NoResult EXCEPT !.status = "ok",
                                            !.cred = NewCompute,
                                            !.projectId = "null"]]
    ELSE Throw(S, Unexpected("CouldNotLoad"))

\* The metadata listing of service accounts
\* (instance/service-accounts/?recursive=true): the request fails, or answers
\* without data, without a default account, without an email for it, or with
\* the default account's email.
ListingOutcomes == {"err", "nodata", "nodefault", "noemail", "m@sa"}

\* The {client_email, private_key} getCredentials hands back.
CredentialBody(email, key) ==
  [NoCred EXCEPT !.kind = "CredentialBody", !.email = email, !.key = key]

\* getCredentialsAsync once _checkIsGCE has returned isGCE: 'Unknown error.'
\* or the listing is requested.
CredsOnGCE(S, isGCE) ==
  IF Falsy(isGCE) THEN Throw(S, "UnknownError")
  ELSE [S EXCEPT !.pc = "creds_listing", !.log = @ \cup {"listing"}]

\* getCredentialsAsync reading the default account's email without asking
\* whether there is one.
CredsOnListing_Unchecked(S, o) ==
  IF o = "err" THEN Throw(S, "RequestError")
  ELSE [S EXCEPT !.pc = "done",
                 !.res = [NoResult EXCEPT
                            !.status = "ok",
                            !.cred = CredentialBody(
                                       IF o = "m@sa" THEN o ELSE "undefined",
                                       "undefined")]]

\* getCredentialsAsync once the listing request has settled.
CredsOnListing(S, o) ==
  IF o = "err" THEN Throw(S, "RequestError")
  ELSE IF o \in {"nodata", "nodefault", "noemail"}
    THEN Throw(S, "MetadataFailure")
  ELSE [S EXCEPT !.pc = "done",
                 !.res = [NoResult EXCEPT
                            !.status = "ok",
                            !.cred = CredentialBody(o, "undefined")]]

\* _checkIsGCE has returned v to its caller.
GceReturn(S, v) ==
  LET T == [S EXCEPT !.fr.gce = v] IN
  IF T.fr.op = "adc" THEN AdcOnGCE(T, v)
  ELSE IF T.fr.op = "creds" THEN CredsOnGCE(T, v)
  ELSE [T EXCEPT !.pc = "done",
                 !.res = [NoResult EXCEPT !.status = "ok", !.value = v]]

\* _checkIsGCE has thrown e to its caller.
GceThrow(S, e) ==
  LET T == [S EXCEPT !.fr.gce = "threw"] IN
  IF T.fr.op = "adc" THEN Throw(T, Unexpected(e)) ELSE Throw(T, e)

\* _checkIsGCE up to its await: the memoized value, or the probe is sent.
GceBegin(S, memo) ==
  IF memo # "undefined" THEN GceReturn(S, memo)
  ELSE [S EXCEPT !.pc = "probe", !.log = @ \cup {"probe"}]

AdcAfterWK(c) ==
  /\ pc[c] = "adc_afterWK"
  /\ Apply(c, IF fr[c].loaded # NoCred
                THEN AdcFound(View(c), env)
                ELSE GceBegin(View(c), checkIsGCE))
  /\ UNCHANGED <<env, checkIsGCE, jsonContent>>


\* The stream's end with a broken well-known file treated as no file: the
\* call carries on as if nothing had been found there.
StreamEnds_WellKnownFallsThrough(c) ==
  /\ pc[c] = "stream"
  /\ LET content == IF fr[c].file = "env" THEN env.credFile ELSE env.wkFile
         r == StreamEnd(content, jsonContent)
         S == [View(c) EXCEPT !.fr.read = content]
     IN  IF content \in {"absent", "streamerr"}
           THEN Apply(c, [S EXCEPT !.pc = "crashed"]) /\ UNCHANGED jsonContent
           ELSE /\ jsonContent' = r.jsonContent
                /\ Apply(c, IF r.ok
                              THEN [S EXCEPT !.pc = S.fr.ret,
                                             !.fr.loaded = r.client,
                                             !.fr.pidCred = r.client,
                                             !.log = @ \cup
                                               {IF S.fr.file = "env"
                                                  THEN "envLoaded"
                                                  ELSE "wkLoaded"}]
                              ELSE IF S.fr.file = "wk"
                                     THEN [S EXCEPT !.pc = S.fr.ret,
                                                    !.fr.loaded = NoCred]
                                     ELSE Throw(S, r.err))
  /\ UNCHANGED <<env, checkIsGCE>>

\* The stream of fromStreamAsync ends. When it emits 'error' instead, nothing
\* listens for it: the promise never settles and the uncaught error ends the
\* process ("crashed").
StreamEnds(c) ==
  /\ pc[c] = "stream"
  /\ LET content == IF fr[c].file = "env" THEN env.credFile ELSE env.wkFile
         r == StreamEnd(content, jsonContent)
         S == [View(c) EXCEPT !.fr.read = content]
     IN  IF content \in {"absent", "streamerr"}
           THEN Apply(c, [S EXCEPT !.pc = "crashed"]) /\ UNCHANGED jsonContent
           ELSE /\ jsonContent' = r.jsonContent
                /\ Apply(c, IF r.ok
                              THEN [S EXCEPT !.pc = S.fr.ret,
                                             !.fr.loaded = r.client,
                                             !.fr.pidCred = r.client,
                                             !.log = @ \cup
                                               {IF S.fr.file = "env"
                                                  THEN "envLoaded"
                                                  ELSE "wkLoaded"}]
                              ELSE Throw(S, r.err))
  /\ UNCHANGED <<env, checkIsGCE>>

\* The probe is answered, and a failure other than ENOTFOUND stores false
\* before it is rethrown.
ProbeAnswered_StoresThenThrows(c) ==
  /\ pc[c] = "probe"
  /\ \E o \in ProbeOutcomes :
       LET r == CheckIsGCEOn(o)
           S == [View(c) EXCEPT !.fr.probe = o]
       IN  IF r.throws
             THEN Apply(c, GceThrow(S, o)) /\ checkIsGCE' = "false"
             ELSE Apply(c, GceReturn(S, r.value)) /\ checkIsGCE' = r.value
  /\ UNCHANGED <<env, jsonContent>>

\* The probe of _checkIsGCE is answered.
ProbeAnswered(c) ==
  /\ pc[c] = "probe"
  /\ \E o \in ProbeOutcomes :
       LET r == CheckIsGCEOn(o)
           S == [View(c) EXCEPT !.fr.probe = o]
       IN  IF r.throws
             THEN Apply(c, GceThrow(S, o)) /\ UNCHANGED checkIsGCE
             ELSE Apply(c, GceReturn(S, r.value)) /\ checkIsGCE' = r.value
  /\ UNCHANGED <<env, jsonContent>>

\* getCredentialsAsync up to its first await: the saved description's
\* client_email and private_key, or _checkIsGCE is asked.
CredsBegin(S, json, memo) ==
  IF json # NullJson
    THEN [S EXCEPT !.pc = "done",
                   !.res = [NoResult EXCEPT
                              !.status = "ok",
                              !.cred = CredentialBody(json.client_email,
                                                      json.private_key)]]
    ELSE GceBegin(S, memo)

GetCredentials(c) ==
  /\ CanStart(c)
  /\ Apply(c, CredsBegin(Fresh("creds"), jsonContent, checkIsGCE))
  /\ UNCHANGED <<env, checkIsGCE, jsonContent>>

\* The listing request of getCredentialsAsync has settled.
CredsListed(c) ==
  /\ pc[c] = "creds_listing"
  /\ \E o \in ListingOutcomes :
       Apply(c, CredsOnListing([View(c) EXCEPT !.fr.listing = o], o))
  /\ UNCHANGED <<env, checkIsGCE, jsonContent>>

\* _checkIsGCE called on its own.
CheckIsGCE(c) ==
  /\ CanStart(c)
  /\ Apply(c, GceBegin(Fresh("gce"), checkIsGCE))
  /\ UNCHANGED <<env, checkIsGCE, jsonContent>>

\* getDefaultProjectId called on its own.
GetDefaultProjectId(c) ==
  /\ CanStart(c)
  /\ Apply(c, PidBegin(Fresh("pid"), env))
  /\ UNCHANGED <<env, checkIsGCE, jsonContent>>

\* getFileProjectId has returned: its value, or the gcloud command is run.
PidAfterFile(c) ==
  /\ pc[c] = "pid_afterFile"
  /\ LET r == IF fr[c].pidCred # NoCred THEN fr[c].pidCred ELSE fr[c].loaded
         v == IF r # NoCred THEN r.projectId ELSE "null"
         S == [View(c) EXCEPT !.fr.seen = Append(@, Src("file", v))]
     IN  Apply(c, IF Truthy(v) THEN PidFinish(S, v)
                  ELSE [S EXCEPT !.pc = "pid_sdk", !.log = @ \cup {"sdk"}])
  /\ UNCHANGED <<env, checkIsGCE, jsonContent>>

\* The gcloud command has ended, and the metadata request is sent only when
\* the detector has already answered true.
PidSdkDone_OnlyOnGCE(c) ==
  /\ pc[c] = "pid_sdk"
  /\ \E o \in SdkOutcomes :
       LET r == getDefaultServiceProjectId(o)
           v == r.value
           S == [View(c) EXCEPT !.fr.sdk = o,
                                !.fr.seen = Append(@, Src("sdk", v))]
       IN  Apply(c, IF r.throws THEN Throw([View(c) EXCEPT !.fr.sdk = o],
                                           "SdkError")
                    ELSE IF Truthy(v) THEN PidFinish(S, v)
                    ELSE IF checkIsGCE # "true" THEN PidFinish(S, "null")
                    ELSE [S EXCEPT !.pc = "pid_gce",
                                   !.log = @ \cup {"gceProject"}])
  /\ UNCHANGED <<env, checkIsGCE, jsonContent>>

\* The gcloud command has ended: its project, or the metadata request is sent.
PidSdkDone(c) ==
  /\ pc[c] = "pid_sdk"
  /\ \E o \in SdkOutcomes :
       LET r == getDefaultServiceProjectId(o)
           v == r.value
           S == [View(c) EXCEPT !.fr.sdk = o,
                                !.fr.seen = Append(@, Src("sdk", v))]
       IN  Apply(c, IF r.throws THEN Throw([View(c) EXCEPT !.fr.sdk = o],
                                           "SdkError")
                    ELSE IF Truthy(v) THEN PidFinish(S, v)
                    ELSE [S EXCEPT !.pc = "pid_gce",
                                   !.log = @ \cup {"gceProject"}])
  /\ UNCHANGED <<env, checkIsGCE, jsonContent>>

\* The metadata project-id request is answered.
PidGceDone(c) ==
  /\ pc[c] = "pid_gce"
  /\ \E o \in GceProjectOutcomes :
       LET v == getGCEProjectId(o)
           S == [View(c) EXCEPT !.fr.seen = Append(@, Src("metadata", v))]
       IN  Apply(c, PidFinish(S, v))
  /\ UNCHANGED <<env, checkIsGCE, jsonContent>>


\* The environment changes under the program: one variable is set or unset,
\* or one file is deleted or written anew with a valid description. A file
\* changes only where there is a path for it.
VARIABLES envChanges

MaxEnvChanges == 1

EnvFields == {"credPath", "credFile", "wkFile", "gcloud", "googleCloud"}

EnvValues(f) ==
  CASE f = "credPath" -> {"undefined", "", "/path/cred.json"}
    [] f = "credFile" -> {"absent", "env_sa", "env_user"}
    [] f = "wkFile" -> {"absent", "wk_sa", "wk_user"}
    [] f = "gcloud" -> {"undefined", "pg"}
    [] OTHER -> {"undefined", "pc"}

EnvChange ==
  /\ envChanges < MaxEnvChanges
  /\ \E f \in EnvFields :
       /\ f = "credFile" => Truthy(env.credPath)
       /\ f = "wkFile" => Truthy(WellKnownRoot(env))
       /\ \E v \in EnvValues(f) \ {env[f]} :
            env' = [env EXCEPT ![f] = v]
  /\ envChanges' = envChanges + 1
  /\ UNCHANGED <<resolverVars, callVars>>

\* ------------------------------------------------------------------------
\* The Compute client and the request engine it inherits
\* ------------------------------------------------------------------------
VARIABLES
  credentials,   \* Compute.credentials
  now,           \* (new Date()).getTime(), in milliseconds
  issued,        \* how many access tokens the metadata server has issued
  rq             \* per caller: its request() in flight

computeVars == <<credentials, now, issued, rq>>

envVars == <<env, envChanges>>

\* Objects a program makes and loads on its own: a UserRefreshClient, a
\* JWTAccess, a LoginTicket, each with the last call made on it.
VARIABLES
  refreshClient,   \* a UserRefreshClient: _clientId, _clientSecret,
                   \* _refreshToken, credentials.refresh_token
  refreshCall,     \* the last call on it: what it was given and what it did
  jwtAccess,       \* a JWTAccess: email, key, projectId
  jwtCall,         \* the last call on it
  time,            \* new Date().getTime() as JWTAccess reads it, milliseconds
  asked,           \* how many times getRequestMetadata has been called
  signed,          \* how many times jws.sign has been called
  ticket,          \* a LoginTicket: envelope, payload
  ticketGiven,     \* what its constructor was given
  ticketCall,      \* the last call on it and what it returned
  made,            \* the client the last GoogleAuth.fromJSON returned
  madeCall,        \* the last call that made or reloaded it
  loads,           \* jsonContent before the last GoogleAuth load, and the
                   \* last description a GoogleAuth load accepted
  streamCall       \* the last fromStream call: its receiver's class, what
                   \* its stream does, and how its promise stands

objectVars == <<refreshClient, refreshCall, jwtAccess, jwtCall, time, asked,
                signed, ticket, ticketGiven, ticketCall, made, madeCall,
                loads, streamCall>>

\* Everything but the objects, and the objects one by one.
programVars == <<envVars, resolverVars, callVars, computeVars>>

refreshVars == <<refreshClient, refreshCall>>

jwtVars == <<jwtAccess, jwtCall, time, asked, signed>>

ticketVars == <<ticket, ticketGiven, ticketCall>>

madeVars == <<made, madeCall>>

loadVars == <<loads>>

streamVars == <<streamCall>>

vars == <<envVars, resolverVars, callVars, computeVars, objectVars>>

\* Encodings: an access token is the number the server issued it under, 0
\* for a missing one; -1 stands for a missing expiry_date or expires_in.
NoToken == 0

NoExpiry == -1

Absent == -1

MsPerSecond == 1000

\* A constructor whose placeholder has no expiry.
Compute_new_NoExpiry ==
  [access_token |-> NoToken, expiry_date |-> NoExpiry,
   refresh_token |-> "compute-placeholder", expires_in |-> Absent]

\* new Compute()
Compute_new ==
  [access_token |-> NoToken, expiry_date |-> 1,
   refresh_token |-> "compute-placeholder", expires_in |-> Absent]

\* A cached token is usable iff now < expiry (a token without an expiry does
\* not expire), and there is an access token to use.
isTokenExpired(creds, t) ==
  creds.expiry_date # NoExpiry /\ creds.expiry_date <= t

Usable(creds, t) ==
  creds.access_token # NoToken /\ ~isTokenExpired(creds, t)

\* An engine that refreshes before every request.
NeedsRefresh_Always(creds, t) == TRUE

\* The engine refreshes first when the cached token is not usable.
NeedsRefresh(creds, t) == ~Usable(creds, t)

\* Compute.refreshToken computing the expiry without the current time.
Compute_refreshToken_NoNow(data, t) ==
  IF data.expires_in # Absent /\ data.expires_in # 0
    THEN [access_token |-> data.access_token,
          expiry_date |-> data.expires_in * MsPerSecond,
          expires_in |-> Absent]
    ELSE [access_token |-> data.access_token,
          expiry_date |-> NoExpiry,
          expires_in |-> data.expires_in]

\* Compute.refreshToken taking a second off the lifetime as a safety margin.
Compute_refreshToken_Margin(data, t) ==
  IF data.expires_in # Absent /\ data.expires_in # 0
    THEN [access_token |-> data.access_token,
          expiry_date |-> t + data.expires_in * MsPerSecond - MsPerSecond,
          expires_in |-> Absent]
    ELSE [access_token |-> data.access_token,
          expiry_date |-> NoExpiry,
          expires_in |-> data.expires_in]

\* Compute.refreshToken on a successful response {access_token, expires_in}
\* received at time t: the tokens it returns.
Compute_refreshToken(data, t) ==
  IF data.expires_in # Absent /\ data.expires_in # 0
    THEN [access_token |-> data.access_token,
          expiry_date |-> t + data.expires_in * MsPerSecond,
          expires_in |-> Absent]
    ELSE [access_token |-> data.access_token,
          expiry_date |-> NoExpiry,
          expires_in |-> data.expires_in]

\* An engine that drops the refreshed tokens.
InstallTokens_Keep(creds, tokens) == creds

\* The engine installs the refreshed tokens, keeping the refresh token.
InstallTokens(creds, tokens) ==
  [access_token |-> tokens.access_token, expiry_date |-> tokens.expiry_date,
   refresh_token |-> creds.refresh_token, expires_in |-> tokens.expires_in]

\* An engine that retries on every failure status.
RetriesOn_AnyFailure(status) == status # 200

\* The statuses a failed first attempt is retried on, after a refresh.
RetriesOn(status) == status \in {401, 403}

\* The catch of Compute.requestAsync(opts, retry): the message of the error
\* it rethrows, given the error's status and message.
Compute_requestAsyncCatch(status, message, retry) ==
  LET helpfulMessage == CASE status = 403 -> <<"Forbidden">>
                          [] status = 404 -> <<"NotFound">>
                          [] OTHER -> <<>>
  IN  IF helpfulMessage # <<>>
        THEN IF message # <<>> /\ ~retry
               THEN helpfulMessage \o message
               ELSE helpfulMessage
        ELSE message

\* What the transport can answer a request with: 0 is a failure without a
\* response.
Statuses == {200, 401, 403, 404, 500, 0}

RefreshFailures == {403, 404, 500, 0}

\* The lifetimes, in seconds, the token endpoint can answer with.
MaxExpiresIn == 2

ExpiresIns == {Absent} \cup (0 .. MaxExpiresIn)

MaxTicks == 3

MaxRequests == 2

\* A request() in flight, and what it has done so far: attempts counts its
\* transport calls, refreshCalls its calls of the token endpoint, refreshed
\* those that succeeded and between those that succeeded after the first
\* attempt; got lists the tokens the endpoint issued to it, sent the token
\* each attempt carried, live whether that token was unexpired when sent,
\* answers the status each attempt got, code the response status of the
\* error it ended with, data the expires_in of the last response of the
\* token endpoint and the time it came at.
NoRequest ==
  [pc |-> "idle", retry |-> FALSE, attempts |-> 0, refreshCalls |-> 0,
   refreshed |-> 0, between |-> 0, usableAtStart |-> FALSE,
   expiredAtStart |-> FALSE, tokenAtStart |-> NoToken, got |-> <<>>,
   sent |-> <<>>, live |-> <<>>, answers |-> <<>>,
   status |-> "none", code |-> Absent, message |-> <<>>, n |-> 0,
   data |-> [expires_in |-> Absent, at |-> Absent]]

\* The transport request of an attempt is sent, at time t, with the cached
\* token.
SendWith(r, creds, t) ==
  [r EXCEPT !.pc = "sent", !.attempts = @ + 1,
            !.sent = Append(@, creds.access_token),
            !.live = Append(@, ~isTokenExpired(creds, t))]

\* The token endpoint is asked for a token.
AskRefresh(r) == [r EXCEPT !.pc = "refreshing", !.refreshCalls = @ + 1]

\* request(): requestAsync(opts, false) up to its first await.
Request(c) ==
  /\ rq[c].pc \in {"idle", "done"}
  /\ rq[c].n < MaxRequests
  /\ LET r == [NoRequest EXCEPT !.n = rq[c].n + 1,
                                !.usableAtStart = Usable(credentials, now),
                                !.expiredAtStart =
                                   isTokenExpired(credentials, now),
                                !.tokenAtStart = credentials.access_token]
     IN  rq' = [rq EXCEPT ![c] = IF NeedsRefresh(credentials, now)
                                   THEN AskRefresh(r)
                                   ELSE SendWith(r, credentials, now)]
  /\ UNCHANGED <<credentials, now, issued>>

\* The error a failed request() hands its caller: through the catch of
\* Compute.requestAsync once, and once more, first, when the failure is that
\* of the retried call.
Surface(r, status, message) ==
  LET inner == IF r.retry /\ r.attempts = 2
                 THEN Compute_requestAsyncCatch(status, message, TRUE)
                 ELSE message
  IN  [r EXCEPT !.pc = "done", !.status = "error", !.code = status,
                !.message = Compute_requestAsyncCatch(status, inner, FALSE)]

\* The token endpoint answers.
RefreshAnswered(c) ==
  /\ rq[c].pc = "refreshing"
  /\ \/ \E x \in ExpiresIns :
          LET data == [access_token |-> issued + 1, expires_in |-> x]
              creds == InstallTokens(credentials,
                                     Compute_refreshToken(data, now))
              r == [rq[c] EXCEPT !.refreshed = @ + 1,
                                 !.between = IF rq[c].attempts = 1
                                               THEN @ + 1 ELSE @,
                                 !.got = Append(@, data.access_token),
                                 !.data = [expires_in |-> x, at |-> now]]
          IN  /\ credentials' = creds
              /\ issued' = issued + 1
              /\ rq' = [rq EXCEPT ![c] = SendWith(r, creds, now)]
     \/ \E s \in RefreshFailures :
          /\ rq' = [rq EXCEPT ![c] =
                      Surface(rq[c], s, <<"CouldNotRefresh">>)]
          /\ UNCHANGED <<credentials, issued>>
  /\ UNCHANGED now

\* An engine that retries the retry.
ShouldRetry_Again(r, s) == RetriesOn(s)

\* A failed attempt is retried when its status is one the engine retries on
\* and the call is not itself the retry.
ShouldRetry(r, s) == RetriesOn(s) /\ ~r.retry

\* The retry: a forced refresh, then requestAsync(opts, true).
Retry(r) == AskRefresh([r EXCEPT !.retry = TRUE])

\* The transport answers an attempt.
TransportAnswered(c) ==
  /\ rq[c].pc = "sent"
  /\ \E s \in Statuses :
       LET r == [rq[c] EXCEPT !.answers = Append(@, s)] IN
       rq' = [rq EXCEPT ![c] =
                CASE s = 200 -> [r EXCEPT !.pc = "done", !.status = "ok"]
                  [] s # 200 /\ ShouldRetry(r, s) -> Retry(r)
                  [] OTHER -> Surface(r, s, <<"body">>)]
  /\ UNCHANGED <<credentials, now, issued>>

\* Time passes.
Tick ==
  /\ now < (1 + MaxTicks) * MsPerSecond
  /\ now' = now + MsPerSecond
  /\ UNCHANGED <<credentials, issued, rq>>



\* ------------------------------------------------------------------------
\* Credential objects loaded on their own
\* ------------------------------------------------------------------------
\* The fields of a credential description.
JsonFields == DOMAIN NullJson

\* A description with the given type, client_id, client_secret and
\* refresh_token, and nothing else.
UserDescription(t, id, secret, token) ==
  [NullJson EXCEPT !.type = t, !.client_id = id, !.client_secret = secret,
                   !.refresh_token = token]

\* The descriptions UserRefreshClient.fromJSON is given: null, and every
\* combination of a right, wrong or missing type with present, empty or
\* missing fields.
RefreshInputs ==
  {NullJson} \cup
  {UserDescription(t, id, secret, token) :
     t \in {"authorized_user", "service_account", "undefined"},
     id \in {"id1", "id2", "", "undefined"},
     secret \in {"s1", "undefined"},
     token \in {"r1", "r2", "undefined"}}

\* JSON.stringify: the text of a description. A field that is undefined is
\* left out of the text.
JSON_stringify(json) ==
  IF json = NullJson THEN [kind |-> "null", pairs |-> {}]
  ELSE [kind |-> "object",
        pairs |-> {<<k, json[k]>> : k \in {f \in JsonFields :
                                              json[f] # "undefined"}}]

\* Text that is not JSON.
Garbage == [kind |-> "garbage", pairs |-> {}]

\* JSON.parse: [ok, value]. A field the text does not have reads as undefined.
JSON_parse(text) ==
  CASE text.kind = "garbage" -> [ok |-> FALSE, value |-> NullJson]
    [] text.kind = "null" -> [ok |-> TRUE, value |-> NullJson]
    [] OTHER ->
         [ok |-> TRUE,
          value |-> [k \in JsonFields |->
                       IF \E p \in text.pairs : p[1] = k
                         THEN (CHOOSE p \in text.pairs : p[1] = k)[2]
                         ELSE "undefined"]]

\* new UserRefreshClient()
UserRefreshClient_new ==
  [_clientId |-> "undefined", _clientSecret |-> "undefined",
   _refreshToken |-> "undefined", refresh_token |-> "undefined"]

NoRefreshCall ==
  [op |-> "none", json |-> NullJson, text |-> Garbage,
   before |-> UserRefreshClient_new, ok |-> FALSE, err |-> "none",
   threw |-> FALSE, callbacks |-> <<>>]

\* UserRefreshClient.fromJSON storing the client id as the secret.
UserRefreshClient_load_Swapped(self, json) ==
  LET r == UserRefreshClient_fromJSON(json) IN
  [ok |-> r.ok, err |-> r.err,
   self |-> IF r.ok
              THEN [_clientId |-> r.client.clientId,
                    _clientSecret |-> r.client.clientId,
                    _refreshToken |-> r.client.refreshToken,
                    refresh_token |-> r.client.refreshToken]
              ELSE self]

\* UserRefreshClient.fromJSON assigning each field as soon as it has been
\* checked.
UserRefreshClient_load_Eager(self, json) ==
  LET r == UserRefreshClient_fromJSON(json) IN
  [ok |-> r.ok, err |-> r.err,
   self |-> IF r.ok
              THEN [_clientId |-> r.client.clientId,
                    _clientSecret |-> r.client.clientSecret,
                    _refreshToken |-> r.client.refreshToken,
                    refresh_token |-> r.client.refreshToken]
              ELSE IF r.err \in {"NoClientSecret", "NoRefreshToken"}
                THEN [self EXCEPT !._clientId = json.client_id]
                ELSE self]

\* UserRefreshClient.fromJSON on the instance self: [ok, err, self] with the
\* instance after the call. The four assignments come after every check.
UserRefreshClient_load(self, json) ==
  LET r == UserRefreshClient_fromJSON(json) IN
  [ok |-> r.ok, err |-> r.err,
   self |-> IF r.ok
              THEN [_clientId |-> r.client.clientId,
                    _clientSecret |-> r.client.clientSecret,
                    _refreshToken |-> r.client.refreshToken,
                    refresh_token |-> r.client.refreshToken]
              ELSE self]

\* fromJSON(json, callback?): on an error the callback is called with it, or
\* the error is thrown; the callback is then called once more, without one.
RefreshFromJSON ==
  /\ \E json \in RefreshInputs, cb \in BOOLEAN :
       LET r == UserRefreshClient_load(refreshClient, json) IN
       /\ refreshClient' = r.self
       /\ refreshCall' =
            [NoRefreshCall EXCEPT
               !.op = "fromJSON", !.json = json, !.before = refreshClient,
               !.ok = r.ok, !.err = r.err, !.threw = ~r.ok /\ ~cb,
               !.callbacks = IF ~cb THEN <<>>
                             ELSE IF r.ok THEN <<"ok">> ELSE <<"err", "ok">>]

\* fromStream(stream, callback?) on a stream that ends with the given text:
\* JSON.parse, then fromJSON without a callback; the promise settles once.
RefreshFromStreamOf(inputs) ==
  /\ \E json \in inputs, garbled \in BOOLEAN, cb \in BOOLEAN :
       LET text == IF garbled THEN Garbage ELSE JSON_stringify(json)
           parsed == JSON_parse(text)
           r == IF parsed.ok
                  THEN UserRefreshClient_load(refreshClient, parsed.value)
                  ELSE [ok |-> FALSE, err |-> "SyntaxError",
                        self |-> refreshClient]
       IN  /\ refreshClient' = r.self
           /\ refreshCall' =
                [NoRefreshCall EXCEPT
                   !.op = "fromStream", !.json = json, !.text = text,
                   !.before = refreshClient,
                   !.ok = r.ok, !.err = r.err, !.threw = ~r.ok /\ ~cb,
                   !.callbacks = IF ~cb THEN <<>>
                                 ELSE IF r.ok THEN <<"ok">> ELSE <<"err">>]

RefreshFromStream == RefreshFromStreamOf(RefreshInputs)

\* A service-account description with the given client_email, private_key
\* and project_id.
ServiceDescription(email, key, pid) ==
  [NullJson EXCEPT !.type = "service_account", !.client_email = email,
                   !.private_key = key, !.project_id = pid]

\* The descriptions JWTAccess.fromJSON is given.
ServiceInputs ==
  {NullJson} \cup
  {ServiceDescription(email, key, pid) :
     email \in {"a@sa", "b@sa", "", "undefined"},
     key \in {"k1", "undefined"},
     pid \in {"p1", "undefined"}}

\* new JWTAccess()
JWTAccess_new ==
  [email |-> "undefined", key |-> "undefined", projectId |-> "undefined"]

\* The URIs getRequestMetadata is asked about.
Uris == {"http://foo", "http://bar"}

HalfSecond == 500

OneHour == 3600

MaxJwtTicks == 3

MaxAsked == 3

NoJwt == [alg |-> "none",
          payload |-> [iss |-> "undefined", sub |-> "undefined",
                       aud |-> "undefined", iat |-> Absent, exp |-> Absent],
          secret |-> "undefined"]

\* No Authorization header.
NoHeader == [scheme |-> "none", jwt |-> NoJwt]

NoJwtCall ==
  [op |-> "none", form |-> "none", json |-> NullJson, uri |-> "none",
   at |-> Absent, before |-> JWTAccess_new, ok |-> FALSE, err |-> "none",
   threw |-> FALSE, callbacks |-> <<>>, header |-> NoHeader, signs |-> 0,
   earlier |-> NoHeader]

\* The header the instance returned last, as of the end of the call.
LastHeader(call) ==
  IF call.header # NoHeader THEN call.header ELSE call.earlier

\* jws.sign({header, payload, secret}): [ok, jwt]. Signing throws without a
\* key; jws.decode of the token gives the header and the payload back.
jws_sign(alg, payload, secret) ==
  IF Falsy(secret) THEN [ok |-> FALSE, jwt |-> NoJwt]
  ELSE [ok |-> TRUE,
        jwt |-> [alg |-> alg, payload |-> payload, secret |-> secret]]

\* JWTAccess.fromJSON on the instance self, in either form: [ok, err, self].
JWTAccess_load(self, json) ==
  IF json = NullJson THEN [ok |-> FALSE, err |-> "NoJson", self |-> self]
  ELSE IF Falsy(json.client_email)
    THEN [ok |-> FALSE, err |-> "NoClientEmail", self |-> self]
  ELSE IF Falsy(json.private_key)
    THEN [ok |-> FALSE, err |-> "NoPrivateKey", self |-> self]
  ELSE [ok |-> TRUE, err |-> "none",
        self |-> [email |-> json.client_email, key |-> json.private_key,
                  projectId |-> json.project_id]]

\* A payload with the expiry counted from the millisecond clock.
JWTAccess_payload_Millis(self, authURI, t) ==
  [iss |-> self.email, sub |-> self.email, aud |-> authURI,
   iat |-> t, exp |-> t + OneHour]

\* The payload getRequestMetadata builds at time t, in milliseconds.
JWTAccess_payload(self, authURI, t) ==
  LET iat == t \div MsPerSecond IN
  [iss |-> self.email, sub |-> self.email, aud |-> authURI,
   iat |-> iat, exp |-> iat + OneHour]

\* fromJSON in its callback form (with or without a callback: without one a
\* failure goes to a no-op) and in its throwing form.
JwtFromJSON ==
  /\ \E json \in ServiceInputs, form \in {"callback", "throwing"},
        cb \in BOOLEAN :
       LET r == JWTAccess_load(jwtAccess, json)
           called == form = "callback" /\ cb
       IN  /\ form = "throwing" => ~cb
           /\ jwtAccess' = r.self
           /\ jwtCall' =
                [NoJwtCall EXCEPT
                   !.op = "fromJSON", !.form = form, !.json = json,
                   !.before = jwtAccess, !.ok = r.ok, !.err = r.err,
                   !.threw = form = "throwing" /\ ~r.ok,
                   !.callbacks = IF ~called THEN <<>>
                                 ELSE IF r.ok THEN <<"ok">> ELSE <<"err">>,
                   !.earlier = LastHeader(jwtCall)]
  /\ UNCHANGED <<time, asked, signed>>

\* JWTAccess.fromStream(stream, callback?), throwing form, on a stream that
\* ends with the given text: JSON.parse, then fromJSON; the promise settles
\* once.
JwtFromStreamOf(inputs) ==
  /\ \E json \in inputs, garbled \in BOOLEAN, cb \in BOOLEAN :
       LET text == IF garbled THEN Garbage ELSE JSON_stringify(json)
           parsed == JSON_parse(text)
           r == IF parsed.ok THEN JWTAccess_load(jwtAccess, parsed.value)
                ELSE [ok |-> FALSE, err |-> "SyntaxError", self |-> jwtAccess]
       IN  /\ jwtAccess' = r.self
           /\ jwtCall' =
                [NoJwtCall EXCEPT
                   !.op = "fromStream", !.form = "throwing",
                   !.json = IF parsed.ok THEN parsed.value ELSE NullJson,
                   !.before = jwtAccess, !.ok = r.ok, !.err = r.err,
                   !.threw = ~r.ok /\ ~cb,
                   !.callbacks = IF ~cb THEN <<>>
                                 ELSE IF r.ok THEN <<"ok">> ELSE <<"err">>,
                   !.earlier = LastHeader(jwtCall)]
  /\ UNCHANGED <<time, asked, signed>>

\* A getRequestMetadata that hands back the header of the call before, when
\* there is one.
JwtGetRequestMetadata_Cached ==
  /\ asked < MaxAsked
  /\ \E authURI \in Uris, form \in {"callback", "throwing"} :
       LET payload == JWTAccess_payload(jwtAccess, authURI, time)
           r == jws_sign("RS256", payload, jwtAccess.key)
           header == [scheme |-> "Bearer", jwt |-> r.jwt]
           hit == LastHeader(jwtCall) # NoHeader
       IN  /\ jwtCall' =
                [NoJwtCall EXCEPT
                   !.op = "getRequestMetadata", !.form = form,
                   !.uri = authURI, !.at = time, !.before = jwtAccess,
                   !.ok = hit \/ r.ok,
                   !.err = IF hit \/ r.ok THEN "none" ELSE "SignError",
                   !.threw = form = "throwing" /\ ~hit /\ ~r.ok,
                   !.callbacks = IF form # "callback" THEN <<>>
                                 ELSE IF hit \/ r.ok THEN <<"ok">>
                                 ELSE <<"err">>,
                   !.header = IF hit THEN LastHeader(jwtCall)
                              ELSE IF r.ok THEN header ELSE NoHeader,
                   !.signs = IF hit THEN 0 ELSE 1,
                   !.earlier = LastHeader(jwtCall)]
           /\ signed' = IF hit THEN signed ELSE signed + 1
  /\ asked' = asked + 1
  /\ UNCHANGED <<jwtAccess, time>>

\* getRequestMetadata(authURI), in either form: one payload, one jws.sign,
\* one header; an error of jws.sign goes to the callback or is thrown.
JwtGetRequestMetadata ==
  /\ asked < MaxAsked
  /\ \E authURI \in Uris, form \in {"callback", "throwing"} :
       LET payload == JWTAccess_payload(jwtAccess, authURI, time)
           r == jws_sign("RS256", payload, jwtAccess.key)
           header == [scheme |-> "Bearer", jwt |-> r.jwt]
       IN  jwtCall' =
             [NoJwtCall EXCEPT
                !.op = "getRequestMetadata", !.form = form,
                !.uri = authURI, !.at = time, !.before = jwtAccess,
                !.ok = r.ok, !.err = IF r.ok THEN "none" ELSE "SignError",
                !.threw = form = "throwing" /\ ~r.ok,
                !.callbacks = IF form # "callback" THEN <<>>
                              ELSE IF r.ok THEN <<"ok">> ELSE <<"err">>,
                !.header = IF r.ok THEN header ELSE NoHeader,
                !.signs = 1,
                !.earlier = LastHeader(jwtCall)]
  /\ asked' = asked + 1
  /\ signed' = signed + 1
  /\ UNCHANGED <<jwtAccess, time>>

\* Half a second passes.
JwtTick ==
  /\ time < MsPerSecond + MaxJwtTicks * HalfSecond
  /\ time' = time + HalfSecond
  /\ UNCHANGED <<jwtAccess, jwtCall, asked, signed>>

\* No payload: the constructor's pay left out.
NoPayload == [kind |-> "undefined", sub |-> "undefined", aud |-> "undefined"]

\* The payloads a LoginTicket is built with: none, a string (the declared
\* type, which has no claims), and decoded tokens whose sub is absent, empty
\* or a user id.
Payloads ==
  {NoPayload, [NoPayload EXCEPT !.kind = "string"]} \cup
  {[kind |-> "object", sub |-> sub, aud |-> aud] :
     sub \in {"undefined", "", "u1", "u2"}, aud \in {"a1", "a2"}}

Envelopes == {"undefined", "e1", "e2"}

\* new LoginTicket(env, pay)
LoginTicket_new(envelope, pay) == [envelope |-> envelope, payload |-> pay]

LoginTicket_getEnvelope(self) == self.envelope

LoginTicket_getPayload(self) == self.payload

\* getUserId without the test of the sub claim.
LoginTicket_getUserId_Unchecked(self) ==
  LET payload == LoginTicket_getPayload(self) IN
  IF payload.kind = "object" THEN payload.sub ELSE "null"

\* getUserId: payload && payload['sub'] ? payload['sub'] : null. A string
\* has no property named sub.
LoginTicket_getUserId(self) ==
  LET payload == LoginTicket_getPayload(self) IN
  IF payload.kind = "object" /\ Truthy(payload.sub) THEN payload.sub
  ELSE "null"

LoginTicket_getAttributes(self) ==
  [envelope |-> LoginTicket_getEnvelope(self),
   payload |-> LoginTicket_getPayload(self)]

NoTicketCall ==
  [op |-> "none", text |-> "undefined", payload |-> NoPayload,
   attributes |-> LoginTicket_new("undefined", NoPayload)]

TicketNew ==
  \E envelope \in Envelopes, pay \in Payloads :
    /\ ticket' = LoginTicket_new(envelope, pay)
    /\ ticketGiven' = [env |-> envelope, pay |-> pay]
    /\ ticketCall' = NoTicketCall

TicketGetEnvelope ==
  /\ ticketCall' = [NoTicketCall EXCEPT
                      !.op = "getEnvelope",
                      !.text = LoginTicket_getEnvelope(ticket)]
  /\ UNCHANGED <<ticket, ticketGiven>>

TicketGetPayload ==
  /\ ticketCall' = [NoTicketCall EXCEPT
                      !.op = "getPayload",
                      !.payload = LoginTicket_getPayload(ticket)]
  /\ UNCHANGED <<ticket, ticketGiven>>

TicketGetUserId ==
  /\ ticketCall' = [NoTicketCall EXCEPT
                      !.op = "getUserId",
                      !.text = LoginTicket_getUserId(ticket)]
  /\ UNCHANGED <<ticket, ticketGiven>>

TicketGetAttributes ==
  /\ ticketCall' = [NoTicketCall EXCEPT
                      !.op = "getAttributes",
                      !.attributes = LoginTicket_getAttributes(ticket)]
  /\ UNCHANGED <<ticket, ticketGiven>>

\* Descriptions of every type, carrying the fields of either variant or of
\* both.
LoaderInputs ==
  {NullJson} \cup
  {[type |-> t, client_id |-> id, client_secret |-> "s1",
    refresh_token |-> token, client_email |-> email, private_key |-> key,
    project_id |-> "p1"] :
     t \in {"authorized_user", "service_account", "external", "undefined"},
     id \in {"id1", "undefined"}, token \in {"r1", "undefined"},
     email \in {"a@sa", "undefined"}, key \in {"k1", "undefined"}}

NoMadeCall ==
  [op |-> "none", json |-> NullJson, ok |-> FALSE, err |-> "none",
   threw |-> FALSE, callbacks |-> <<>>, before |-> NoCred]

\* client.fromJSON(json) on a client GoogleAuth.fromJSON returned: the
\* client's own class validates, and on success takes the fields.
Client_fromJSON(client, json) ==
  LET r == IF client.kind = "UserRefreshClient"
             THEN UserRefreshClient_fromJSON(json)
             ELSE JWT_fromJSON(json)
  IN  [ok |-> r.ok, err |-> r.err,
       client |-> IF r.ok THEN r.client ELSE client]

\* GoogleAuth.fromJSON(json, callback?) on a description of inputs: the
\* client goes to the callback or is returned; an error goes to the callback
\* or is thrown.
LoaderFromJSONOf(inputs) ==
  /\ \E json \in inputs, cb \in BOOLEAN :
       LET r == GoogleAuth_fromJSON(json, jsonContent) IN
       /\ jsonContent' = r.jsonContent
       /\ made' = r.client
       /\ madeCall' =
            [NoMadeCall EXCEPT
               !.op = "fromJSON", !.json = json, !.ok = r.ok, !.err = r.err,
               !.threw = ~cb /\ ~r.ok,
               !.callbacks = IF ~cb THEN <<>>
                             ELSE IF r.ok THEN <<"ok">> ELSE <<"err">>,
               !.before = made]
  /\ UNCHANGED <<checkIsGCE, cachedProjectId, cachedCredential>>

LoaderFromJSON == LoaderFromJSONOf(LoaderInputs)

\* GoogleAuth.fromStream(stream, callback?) on a stream that ends with the
\* text of a description of inputs, or with text that is not JSON:
\* JSON.parse, then fromJSON without a callback; the promise resolves with
\* the client or rejects, and a callback gets what the promise got.
LoaderFromStreamOf(inputs) ==
  /\ \E json \in inputs, garbled \in BOOLEAN, cb \in BOOLEAN :
       LET text == IF garbled THEN Garbage ELSE JSON_stringify(json)
           parsed == JSON_parse(text)
           r == IF parsed.ok
                  THEN GoogleAuth_fromJSON(parsed.value, jsonContent)
                  ELSE [ok |-> FALSE, err |-> "SyntaxError",
                        client |-> NoCred, jsonContent |-> jsonContent]
       IN  /\ jsonContent' = r.jsonContent
           /\ made' = r.client
           /\ madeCall' =
                [NoMadeCall EXCEPT
                   !.op = "fromStream",
                   !.json = IF parsed.ok THEN parsed.value ELSE NullJson,
                   !.ok = r.ok, !.err = r.err,
                   !.threw = ~cb /\ ~r.ok,
                   !.callbacks = IF ~cb THEN <<>>
                                 ELSE IF r.ok THEN <<"ok">> ELSE <<"err">>,
                   !.before = made]
  /\ UNCHANGED <<checkIsGCE, cachedProjectId, cachedCredential>>

\* What a load leaves behind for the record: jsonContent as it was before,
\* and the description accepted last.
TrackLoad ==
  loads' = [before |-> jsonContent,
            accepted |-> IF madeCall'.ok THEN madeCall'.json
                         ELSE loads.accepted]

\* The descriptions the resolver is loaded with before getCredentials is
\* asked: none, an accepted service account, an accepted user, a user
\* description rejected for its missing refresh_token that carries an email
\* and a key, and a service account rejected for its missing key.
CredInputs ==
  {NullJson,
   ServiceDescription("a@sa", "k1", "p1"),
   UserDescription("authorized_user", "id1", "s1", "r1"),
   [UserDescription("authorized_user", "id1", "s1", "undefined")
      EXCEPT !.client_email = "b@sa", !.private_key = "k2"],
   ServiceDescription("c@sa", "undefined", "p1")}

\* The returned client loaded again, by its own fromJSON.
LoaderReload ==
  /\ made # NoCred
  /\ \E json \in LoaderInputs :
       LET r == Client_fromJSON(made, json) IN
       /\ made' = r.client
       /\ madeCall' =
            [NoMadeCall EXCEPT
               !.op = "reload", !.json = json, !.ok = r.ok, !.err = r.err,
               !.threw = ~r.ok, !.before = made]
  /\ UNCHANGED resolverVars

\* No fromStream call yet.
NoStreamCall == [who |-> "none", stream |-> "none", state |-> "none",
                 settles |-> 0, outcome |-> "none"]

InitObjects ==
  /\ refreshClient = UserRefreshClient_new
  /\ refreshCall = NoRefreshCall
  /\ jwtAccess = JWTAccess_new
  /\ jwtCall = NoJwtCall
  /\ time = MsPerSecond
  /\ asked = 0
  /\ signed = 0
  /\ ticket = LoginTicket_new("undefined", NoPayload)
  /\ ticketGiven = [env |-> "undefined", pay |-> NoPayload]
  /\ ticketCall = NoTicketCall
  /\ made = NoCred
  /\ madeCall = NoMadeCall
  /\ loads = [before |-> NullJson, accepted |-> NullJson]
  /\ streamCall = NoStreamCall

InitResolver ==
  /\ envChanges = 0
  /\ checkIsGCE = "undefined"
  /\ cachedProjectId = "undefined"
  /\ cachedCredential = NoCred
  /\ jsonContent = NullJson
  /\ pc = [c \in Callers |-> "idle"]
  /\ fr = [c \in Callers |-> NoFrame]
  /\ result = [c \in Callers |-> NoResult]
  /\ log = [c \in Callers |-> {}]

InitCompute ==
  /\ credentials = Compute_new
  /\ now = MsPerSecond
  /\ issued = 0
  /\ rq = [c \in Callers |-> NoRequest]

\* The resolver, started in every environment of InitEnvs.
Init ==
  /\ env \in InitEnvs
  /\ InitResolver
  /\ InitCompute
  /\ InitObjects

\* One caller at a time: every call runs to its end before the next starts.
NextResolver ==
  \/ GetApplicationDefault("c1") /\ UNCHANGED <<envChanges, computeVars, objectVars>>
  \/ AdcAfterEnv("c1") /\ UNCHANGED <<envChanges, computeVars, objectVars>>
  \/ AdcAfterWK("c1") /\ UNCHANGED <<envChanges, computeVars, objectVars>>
  \/ StreamEnds("c1") /\ UNCHANGED <<envChanges, computeVars, objectVars>>
  \/ ProbeAnswered("c1") /\ UNCHANGED <<envChanges, computeVars, objectVars>>
  \/ CheckIsGCE("c1") /\ UNCHANGED <<envChanges, computeVars, objectVars>>
  \/ GetDefaultProjectId("c1") /\ UNCHANGED <<envChanges, computeVars, objectVars>>
  \/ PidAfterFile("c1") /\ UNCHANGED <<envChanges, computeVars, objectVars>>
  \/ PidSdkDone("c1") /\ UNCHANGED <<envChanges, computeVars, objectVars>>
  \/ PidGceDone("c1") /\ UNCHANGED <<envChanges, computeVars, objectVars>>
  \/ EnvChange /\ UNCHANGED <<computeVars, objectVars>>

SpecResolver == Init /\ [][NextResolver]_vars

\* A Compute client on its own, in one environment.
InitClient ==
  /\ env = [platform |-> "linux", home |-> "/home/u", appdata |-> "undefined",
            credPath |-> "undefined", credFile |-> "absent",
            wkFile |-> "absent", gcloud |-> "undefined",
            googleCloud |-> "undefined"]
  /\ InitResolver
  /\ InitCompute
  /\ InitObjects

NextCompute ==
  \/ Request("c1") /\ UNCHANGED <<envVars, resolverVars, callVars, objectVars>>
  \/ RefreshAnswered("c1") /\ UNCHANGED <<envVars, resolverVars, callVars, objectVars>>
  \/ TransportAnswered("c1") /\ UNCHANGED <<envVars, resolverVars, callVars, objectVars>>
  \/ Tick /\ UNCHANGED <<envVars, resolverVars, callVars, objectVars>>

SpecCompute == InitClient /\ [][NextCompute]_vars

\* Two callers of one resolver whose calls overlap: every await is a point
\* where the other caller's code can run. getDefaultProjectId and
\* _checkIsGCE, in an environment without project variables or files.
NextOverlap ==
  \/ \E c \in Callers :
       GetDefaultProjectId(c) /\ UNCHANGED <<envChanges, computeVars, objectVars>>
  \/ \E c \in Callers :
       PidAfterFile(c) /\ UNCHANGED <<envChanges, computeVars, objectVars>>
  \/ \E c \in Callers :
       PidSdkDone(c) /\ UNCHANGED <<envChanges, computeVars, objectVars>>
  \/ \E c \in Callers :
       PidGceDone(c) /\ UNCHANGED <<envChanges, computeVars, objectVars>>
  \/ \E c \in Callers :
       CheckIsGCE(c) /\ UNCHANGED <<envChanges, computeVars, objectVars>>
  \/ \E c \in Callers :
       ProbeAnswered(c) /\ UNCHANGED <<envChanges, computeVars, objectVars>>

SpecOverlap == InitClient /\ [][NextOverlap]_vars

\* Two callers of one Compute client whose requests overlap, at one instant
\* (the client starts with an expired token, and so do its first requests).
NextComputeOverlap ==
  \/ \E c \in Callers :
       Request(c) /\ UNCHANGED <<envVars, resolverVars, callVars, objectVars>>
  \/ \E c \in Callers :
       RefreshAnswered(c) /\ UNCHANGED <<envVars, resolverVars, callVars, objectVars>>
  \/ \E c \in Callers :
       TransportAnswered(c) /\ UNCHANGED <<envVars, resolverVars, callVars, objectVars>>

SpecComputeOverlap == InitClient /\ [][NextComputeOverlap]_vars

\* One caller that uses the detector and a Compute client, one call at a
\* time, while the clock runs.
NextClient ==
  \/ CheckIsGCE("c1") /\ UNCHANGED <<envChanges, computeVars, objectVars>>
  \/ ProbeAnswered("c1") /\ UNCHANGED <<envChanges, computeVars, objectVars>>
  \/ Request("c1") /\ UNCHANGED <<envVars, resolverVars, callVars, objectVars>>
  \/ RefreshAnswered("c1") /\ UNCHANGED <<envVars, resolverVars, callVars, objectVars>>
  \/ TransportAnswered("c1") /\ UNCHANGED <<envVars, resolverVars, callVars, objectVars>>
  \/ Tick /\ UNCHANGED <<envVars, resolverVars, callVars, objectVars>>

SpecClient == InitClient /\ [][NextClient]_vars

\* A UserRefreshClient loaded again and again, from descriptions and from
\* streams.
NextRefreshClient ==
  \/ RefreshFromJSON /\ UNCHANGED <<programVars, jwtVars, ticketVars, madeVars, loadVars, streamVars>>
  \/ RefreshFromStream /\ UNCHANGED <<programVars, jwtVars, ticketVars, madeVars, loadVars, streamVars>>

SpecRefreshClient == InitClient /\ [][NextRefreshClient]_vars

\* A JWTAccess loaded and asked for request metadata, while time passes.
NextJwtAccess ==
  \/ JwtFromJSON /\ UNCHANGED <<programVars, refreshVars, ticketVars, madeVars, loadVars, streamVars>>
  \/ JwtGetRequestMetadata /\ UNCHANGED <<programVars, refreshVars, ticketVars, madeVars, loadVars, streamVars>>
  \/ JwtTick /\ UNCHANGED <<programVars, refreshVars, ticketVars, madeVars, loadVars, streamVars>>

SpecJwtAccess == InitClient /\ [][NextJwtAccess]_vars

\* A LoginTicket built and read.
NextLoginTicket ==
  \/ TicketNew /\ UNCHANGED <<programVars, refreshVars, jwtVars, madeVars, loadVars, streamVars>>
  \/ TicketGetEnvelope /\ UNCHANGED <<programVars, refreshVars, jwtVars, madeVars, loadVars, streamVars>>
  \/ TicketGetPayload /\ UNCHANGED <<programVars, refreshVars, jwtVars, madeVars, loadVars, streamVars>>
  \/ TicketGetUserId /\ UNCHANGED <<programVars, refreshVars, jwtVars, madeVars, loadVars, streamVars>>
  \/ TicketGetAttributes /\ UNCHANGED <<programVars, refreshVars, jwtVars, madeVars, loadVars, streamVars>>

SpecLoginTicket == InitClient /\ [][NextLoginTicket]_vars

\* Descriptions handed to GoogleAuth.fromJSON, and the clients it returns.
NextLoader ==
  \/ LoaderFromJSON
       /\ UNCHANGED <<envVars, callVars, computeVars, refreshVars, jwtVars,
                      ticketVars, loadVars, streamVars>>
  \/ LoaderReload
       /\ UNCHANGED <<envVars, callVars, computeVars, refreshVars, jwtVars,
                      ticketVars, loadVars, streamVars>>

SpecLoader == InitClient /\ [][NextLoader]_vars

\* A resolver loaded with descriptions, from objects and from streams, and
\* asked for its credentials, one call at a time.
NextCredentials ==
  \/ LoaderFromJSONOf(CredInputs) /\ TrackLoad
       /\ UNCHANGED <<envVars, callVars, computeVars, refreshVars, jwtVars,
                      ticketVars, streamVars>>
  \/ LoaderFromStreamOf(CredInputs) /\ TrackLoad
       /\ UNCHANGED <<envVars, callVars, computeVars, refreshVars, jwtVars,
                      ticketVars, streamVars>>
  \/ GetCredentials("c1") /\ UNCHANGED <<envChanges, computeVars, objectVars>>
  \/ ProbeAnswered("c1") /\ UNCHANGED <<envChanges, computeVars, objectVars>>
  \/ CredsListed("c1") /\ UNCHANGED <<envChanges, computeVars, objectVars>>

SpecCredentials == InitClient /\ [][NextCredentials]_vars

\* Two callers of getApplicationDefault on one resolver, their calls cut at
\* every await, on a linux host with or without an environment file, a
\* well-known file and the project variables.
AdcOverlapEnvs ==
  {e \in InitEnvs : /\ e.platform = "linux"
                    /\ e.credFile \in {"absent", "env_sa"}
                    /\ e.wkFile \in {"absent", "wk_user"}}

InitAdcOverlap ==
  /\ env \in AdcOverlapEnvs
  /\ InitResolver
  /\ InitCompute
  /\ InitObjects

NextAdcOverlap ==
  \/ \E c \in Callers :
       GetApplicationDefault(c) /\ UNCHANGED <<envChanges, computeVars, objectVars>>
  \/ \E c \in Callers :
       AdcAfterEnv(c) /\ UNCHANGED <<envChanges, computeVars, objectVars>>
  \/ \E c \in Callers :
       AdcAfterWK(c) /\ UNCHANGED <<envChanges, computeVars, objectVars>>
  \/ \E c \in Callers :
       StreamEnds(c) /\ UNCHANGED <<envChanges, computeVars, objectVars>>
  \/ \E c \in Callers :
       ProbeAnswered(c) /\ UNCHANGED <<envChanges, computeVars, objectVars>>
  \/ \E c \in Callers :
       PidAfterFile(c) /\ UNCHANGED <<envChanges, computeVars, objectVars>>
  \/ \E c \in Callers :
       PidSdkDone(c) /\ UNCHANGED <<envChanges, computeVars, objectVars>>
  \/ \E c \in Callers :
       PidGceDone(c) /\ UNCHANGED <<envChanges, computeVars, objectVars>>

SpecAdcOverlap == InitAdcOverlap /\ [][NextAdcOverlap]_vars

\* ------------------------------------------------------------------------
\* fromStream, from the call to the stream's last event
\* ------------------------------------------------------------------------
StreamClasses == {"UserRefreshClient", "JWTAccess", "GoogleAuth"}

\* What the stream handed to fromStream is or does: it is null, it ends, or
\* it emits 'error'.
StreamInputs == {"null", "ends", "errors"}

\* The descriptions the streams carry: none, one its class accepts, and one
\* it rejects for a missing field.
StreamUsers ==
  {NullJson, UserDescription("authorized_user", "id1", "s1", "r1"),
   UserDescription("authorized_user", "id1", "s1", "undefined")}

StreamServices ==
  {NullJson, ServiceDescription("a@sa", "k1", "p1"),
   ServiceDescription("a@sa", "undefined", "p1")}

\* fromStream(inputStream) up to the return of the promise's executor: a
\* null stream rejects (UserRefreshClient and JWTAccess call reject,
\* GoogleAuth throws inside the executor); otherwise the listeners of 'data'
\* and 'end' are registered and the promise is pending. One receiver is
\* followed: every call is on an instance of the class of the first.
FromStreamCalled ==
  /\ streamCall.state \in {"none", "settled"}
  /\ \E who \in StreamClasses, st \in StreamInputs :
       /\ streamCall.who \in {"none", who}
       /\ streamCall' =
            IF st = "null"
              THEN [who |-> who, stream |-> st, state |-> "settled",
                    settles |-> 1, outcome |-> "rejected"]
              ELSE [who |-> who, stream |-> st, state |-> "pending",
                    settles |-> 0, outcome |-> "none"]

\* The 'end' listener has run on the receiver of class who: resolve() when
\* JSON.parse and fromJSON went through, reject(err) from the catch.
StreamEnded(who, ok) ==
  /\ streamCall.state = "pending"
  /\ streamCall.who = who
  /\ streamCall.stream = "ends"
  /\ streamCall' = [streamCall EXCEPT
                      !.state = "settled", !.settles = @ + 1,
                      !.outcome = IF ok THEN "resolved" ELSE "rejected"]

\* The stream emits 'error': fromStreamAsync has registered no listener for
\* it, so neither resolve nor reject is called, now or later.
StreamErrored ==
  /\ streamCall.state = "pending"
  /\ streamCall.stream = "errors"
  /\ streamCall' = [streamCall EXCEPT !.state = "errored"]

RefreshStreamEnds ==
  /\ RefreshFromStreamOf(StreamUsers)
  /\ StreamEnded("UserRefreshClient", refreshCall'.ok)
  /\ UNCHANGED <<programVars, jwtVars, ticketVars, madeVars, loadVars>>

JwtStreamEnds ==
  /\ JwtFromStreamOf(StreamServices)
  /\ StreamEnded("JWTAccess", jwtCall'.ok)
  /\ UNCHANGED <<programVars, refreshVars, ticketVars, madeVars, loadVars>>

LoaderStreamEnds ==
  /\ LoaderFromStreamOf(CredInputs)
  /\ StreamEnded("GoogleAuth", madeCall'.ok)
  /\ UNCHANGED <<envVars, callVars, computeVars, refreshVars, jwtVars,
                 ticketVars, loadVars>>

StreamErrors ==
  /\ StreamErrored
  /\ UNCHANGED <<programVars, refreshVars, jwtVars, ticketVars, madeVars,
                 loadVars>>

NextStreams ==
  \/ FromStreamCalled
       /\ UNCHANGED <<programVars, refreshVars, jwtVars, ticketVars,
                      madeVars, loadVars>>
  \/ RefreshStreamEnds
  \/ JwtStreamEnds
  \/ LoaderStreamEnds
  \/ StreamErrors

\* Every stream handed over ends or emits 'error' in the end: its events
\* are delivered.
SpecStreams ==
  /\ InitClient /\ [][NextStreams]_vars
  /\ WF_vars(RefreshStreamEnds) /\ WF_vars(JwtStreamEnds)
  /\ WF_vars(LoaderStreamEnds) /\ WF_vars(StreamErrors)

\* ------------------------------------------------------------------------
\* Properties of the resolver (SpecResolver)
\* ------------------------------------------------------------------------
WellKnownTraces == {"wkExists", "wkFile", "wkLoaded"}

\* C1: a getApplicationDefault call whose chain read a valid credential
\* description from the file GOOGLE_APPLICATION_CREDENTIALS names returns the
\* credential built from that file; it never checks or reads the well-known
\* file and never sends the detection probe. (Calls answered from the
\* credential cache do not run the chain and are not this claim's case.)
C1_EnvVarWins ==
  \A c \in Callers :
    (fr[c].op = "adc" /\ "envLoaded" \in log[c]) =>
      /\ log[c] \cap (WellKnownTraces \cup {"probe"}) = {}
      /\ pc[c] \in {"adc_afterEnv", "pid_afterFile", "pid_sdk", "pid_gce",
                   "done"}
      /\ pc[c] = "done" =>
           /\ result[c].status = "ok"
           /\ result[c].cred =
                GoogleAuth_fromJSON(Desc(fr[c].read), NullJson).client
           /\ result[c].cred # NoCred

\* A finished call that took its credential from the environment-variable
\* file while a valid well-known file was there to be read.
C1_Witness ==
  \E c \in Callers :
    /\ fr[c].op = "adc" /\ pc[c] = "done" /\ "envLoaded" \in log[c]
    /\ result[c].status = "ok" /\ result[c].cred.kind = "JWT"
    /\ env.wkFile \in {"wk_sa", "wk_user"}
    /\ Truthy(WellKnownRoot(env))

\* C2: a getApplicationDefault call that found GOOGLE_APPLICATION_CREDENTIALS
\* set and could not load the file it names (missing, unreadable, not JSON,
\* or not a valid description) ends in an error (or the process ends on the
\* unhandled stream error): it never goes on to the well-known file or the
\* probe, it never writes the credential cache, and the cache stays empty.
C2_BrokenEnvFileIsFatal ==
  \A c \in Callers :
    (fr[c].op = "adc" /\ "envFile" \in log[c] /\ "envLoaded" \notin log[c]) =>
      /\ pc[c] \in {"stream", "done", "crashed"}
      /\ pc[c] = "done" => result[c].status = "error"
      /\ log[c] \cap (WellKnownTraces \cup {"probe", "cacheWrite"}) = {}
      /\ cachedCredential = NoCred

\* A call that failed on an environment-variable file that is not JSON, with
\* a valid well-known file there to fall back on.
C2_Witness ==
  \E c \in Callers :
    /\ fr[c].op = "adc" /\ pc[c] = "done" /\ result[c].status = "error"
    /\ "envFile" \in log[c] /\ fr[c].read = "badjson"
    /\ env.wkFile \in {"wk_sa", "wk_user"}
    /\ Truthy(WellKnownRoot(env))

\* C3: a getApplicationDefault call that got an answer from the detector had
\* loaded no credential from either file, and has exactly two outcomes: on
\* true it returns a new Compute credential with a null project id, on
\* anything else it fails with the 'could not load' error. (A detector
\* that throws is C4's case.)
C3_NoSourceOutcomes ==
  \A c \in Callers :
    (fr[c].op = "adc" /\ pc[c] = "done" /\ fr[c].gce \notin {"none", "threw"})
      => /\ log[c] \cap {"envLoaded", "wkLoaded", "cacheWrite"} = {}
         /\ IF fr[c].gce = "true"
              THEN /\ result[c].status = "ok"
                   /\ result[c].cred = NewCompute
                   /\ result[c].projectId = "null"
              ELSE /\ result[c].status = "error"
                   /\ result[c].err = Unexpected("CouldNotLoad")
                   /\ result[c].cred = NoCred

\* A call that ended with a Compute credential after a probe it sent.
C3_Witness ==
  \E c \in Callers :
    /\ fr[c].op = "adc" /\ pc[c] = "done" /\ fr[c].probe = "google"
    /\ fr[c].gce = "true" /\ result[c].cred = NewCompute

\* C4: when the probe of _checkIsGCE fails, ENOTFOUND makes it return false
\* and any other error makes it throw: called on its own it then fails with
\* that error and yields no value.
C4_DetectorErrors ==
  \A c \in Callers :
    (pc[c] = "done" /\ fr[c].probe # "none" /\ ProbeFails(fr[c].probe)) =>
      IF fr[c].probe = "ENOTFOUND"
        THEN /\ fr[c].gce = "false"
             /\ fr[c].op = "gce" =>
                  result[c].status = "ok" /\ result[c].value = "false"
        ELSE /\ fr[c].gce = "threw"
             /\ result[c].status = "error"
             /\ fr[c].op = "gce" =>
                  result[c].err = fr[c].probe /\ result[c].value = "undefined"

\* _checkIsGCE, called on its own, has thrown the connection error of its
\* probe.
C4_Witness ==
  \E c \in Callers :
    /\ fr[c].op = "gce" /\ pc[c] = "done" /\ fr[c].probe = "ECONNRESET"
    /\ result[c].status = "error" /\ result[c].err = "ECONNRESET"

\* The fixed order of the project-id sources.
ChainOrder ==
  <<"GCLOUD_PROJECT", "GOOGLE_CLOUD_PROJECT", "file", "sdk", "metadata">>

\* C10: a project-id resolution consults its sources in the fixed order
\* GCLOUD_PROJECT, GOOGLE_CLOUD_PROJECT, credential file, SDK, metadata
\* server; it consults a source only if every earlier one yielded nothing,
\* and it returns the first non-empty value, or the last source's empty one.
\* (Calls answered from the memoized project id consult nothing.)
C10_ProjectIdOrder ==
  \A c \in Callers :
    LET s == fr[c].seen IN
    /\ Len(s) <= Len(ChainOrder)
    /\ \A i \in 1 .. Len(s) : s[i].src = ChainOrder[i]
    /\ \A i \in 1 .. Len(s) : i < Len(s) => Falsy(s[i].val)
    /\ (pc[c] = "done" /\ result[c].status = "ok" /\ s # <<>>) =>
         /\ result[c].projectId = s[Len(s)].val
         /\ Falsy(s[Len(s)].val) => Len(s) = Len(ChainOrder)

\* A resolution that went through every source and got its project id from
\* the metadata server.
C10_Witness ==
  \E c \in Callers :
    /\ fr[c].op = "pid" /\ pc[c] = "done" /\ Len(fr[c].seen) = 5
    /\ result[c].projectId = "pm"

\* ------------------------------------------------------------------------
\* Properties of the Compute client's requests (SpecCompute)
\* ------------------------------------------------------------------------
\* The calls of the token endpoint a request made before its first attempt.
RefreshCallsBeforeFirst(r) == r.refreshCalls - (IF r.retry THEN 1 ELSE 0)

\* C5: no attempt ever carries a token whose expiry has passed; a request()
\* issued while the cached token is expired (the first request of a new
\* Compute client included) sends nothing until a refresh has answered, and
\* when it sends, exactly one refresh has been called and has completed
\* before that, and the attempt carries the token that refresh issued.
C5_ExpiredNeverSent ==
  \A c \in Callers :
    LET r == rq[c] IN
    /\ \A i \in 1 .. Len(r.live) : r.live[i]
    /\ (r.expiredAtStart /\ r.attempts = 0) =>
         /\ r.pc \in {"refreshing", "done"}
         /\ r.pc = "done" => r.status = "error"
    /\ (r.expiredAtStart /\ r.attempts >= 1) =>
         /\ RefreshCallsBeforeFirst(r) = 1
         /\ r.refreshed - r.between = 1
         /\ r.sent[1] = r.got[1]
         /\ r.sent[1] # r.tokenAtStart

\* A request that found an earlier token expired and has sent its attempt.
C5_Witness ==
  \E c \in Callers :
    /\ rq[c].expiredAtStart /\ rq[c].tokenAtStart # NoToken
    /\ rq[c].attempts >= 1

\* C6: a request() issued while the cached token is usable sends its first
\* attempt with that token and without calling the token endpoint; unless an
\* attempt is answered with a status the engine retries on (C7), it never
\* calls the endpoint and the cached token stays the one it started with.
C6_UnexpiredReused ==
  \A c \in Callers :
    LET r == rq[c] IN
    r.usableAtStart =>
      /\ r.attempts >= 1
      /\ r.sent[1] = r.tokenAtStart
      /\ RefreshCallsBeforeFirst(r) = 0
      /\ r.refreshed = r.between
      /\ ~r.retry =>
           /\ r.refreshCalls = 0 /\ r.got = <<>>
           /\ credentials.access_token = r.tokenAtStart

\* A request that succeeded at once with the token of an earlier request.
C6_Witness ==
  \E c \in Callers :
    /\ rq[c].usableAtStart /\ rq[c].tokenAtStart # NoToken
    /\ rq[c].pc = "done" /\ rq[c].status = "ok" /\ rq[c].attempts = 1

\* The calls of the token endpoint a request made after its first attempt.
RefreshCallsAfterFirst(r) == r.refreshCalls - RefreshCallsBeforeFirst(r)

\* C7: a request() answered 401 and then 200 succeeds after exactly two
\* transport calls, with exactly one refresh, called and completed, between
\* them; the second call carries the token that refresh issued, not the
\* token of the first. That refresh is the only one of a request that
\* started with a usable token; one that started without has made the
\* refresh of C5 before its first attempt as well.
C7_RetryOn401 ==
  \A c \in Callers :
    LET r == rq[c] IN
    /\ r.answers = <<401>> =>
         /\ r.retry /\ RefreshCallsAfterFirst(r) = 1
         /\ r.pc = "sent" =>
              /\ r.attempts = 2 /\ r.between = 1
              /\ r.sent[2] = r.got[Len(r.got)] /\ r.sent[2] # r.sent[1]
    /\ r.answers = <<401, 200>> =>
         /\ r.pc = "done" /\ r.status = "ok"
         /\ r.attempts = 2 /\ Len(r.sent) = 2
         /\ RefreshCallsAfterFirst(r) = 1 /\ r.between = 1
         /\ r.refreshCalls = (IF r.usableAtStart THEN 1 ELSE 2)
         /\ r.refreshed = r.refreshCalls
         /\ r.sent[2] = r.got[Len(r.got)] /\ r.sent[2] # r.sent[1]
         /\ credentials.access_token = r.sent[2]

\* A request that succeeded on its retry after a 401.
C7_Witness ==
  \E c \in Callers :
    /\ rq[c].answers = <<401, 200>> /\ rq[c].status = "ok"
    /\ rq[c].usableAtStart

\* C8: a request() makes at most two transport calls; answered 401 both
\* times it fails after exactly two, with one refresh between them.
C8_AtMostTwoAttempts ==
  \A c \in Callers :
    LET r == rq[c] IN
    /\ r.attempts <= 2 /\ Len(r.answers) <= 2
    /\ RefreshCallsAfterFirst(r) <= 1
    /\ r.answers = <<401, 401>> =>
         /\ r.pc = "done" /\ r.status = "error"
         /\ r.attempts = 2 /\ r.between = 1

\* A request that failed on two 401 answers.
C8_Witness ==
  \E c \in Callers :
    /\ rq[c].answers = <<401, 401>> /\ rq[c].pc = "done"
    /\ rq[c].status = "error"

\* A first attempt answered with a failure status outside skip is the end of
\* the request: it fails at once, with no refresh after the answer and no
\* second attempt.
SurfacedAtOnce(skip) ==
  \A c \in Callers :
    LET r == rq[c] IN
    (Len(r.answers) >= 1 /\ r.answers[1] \notin ({200} \cup skip)) =>
      /\ r.pc = "done" /\ r.status = "error"
      /\ r.attempts = 1 /\ Len(r.answers) = 1
      /\ ~r.retry /\ RefreshCallsAfterFirst(r) = 0 /\ r.between = 0

Begins(c, op) ==
  /\ pc[c] \in {"idle", "done"}
  /\ fr'[c].op = op
  /\ <<pc'[c], fr'[c], result'[c], log'[c]>> #
       <<pc[c], fr[c], result[c], log[c]>>

\* One step of the resolver as C11 has it: a getDefaultProjectId that returns
\* a non-empty id leaves it memoized, the memoized id never changes, and a
\* call that begins with an id memoized returns it at once, having consulted
\* no source.
MemoizedProjectIdStep ==
  /\ \A c \in Callers :
       (pc[c] # "done" /\ pc'[c] = "done" /\ fr'[c].seen # <<>>
          /\ result'[c].status = "ok" /\ Truthy(result'[c].projectId))
         => cachedProjectId' = result'[c].projectId
  /\ Truthy(cachedProjectId) => cachedProjectId' = cachedProjectId
  /\ \A c \in Callers :
       (Begins(c, "pid") /\ Truthy(cachedProjectId)) =>
         /\ pc'[c] = "done" /\ result'[c].status = "ok"
         /\ result'[c].projectId = cachedProjectId
         /\ log'[c] = {} /\ fr'[c].seen = <<>>

\* C11: once getDefaultProjectId has returned a non-empty project id p,
\* every later getDefaultProjectId call returns p without consulting the
\* environment, a credential file, the SDK command or the metadata service.
C11_AsStated == [][MemoizedProjectIdStep]_vars

\* One step of the resolver as C12 has it: a stored detection result of true
\* or false is never replaced, and no probe is sent while one is stored.
MemoizedDetectionStep ==
  checkIsGCE \in {"true", "false"} =>
    /\ checkIsGCE' = checkIsGCE
    /\ \A c \in Callers : pc'[c] = "probe" => pc[c] = "probe"

\* C12: once platform detection has resolved to true or false, the stored
\* result never changes and no later _checkIsGCE call sends another probe.
C12_AsStated == [][MemoizedDetectionStep]_vars

\* C13: when _checkIsGCE calls overlap before a result is stored, the probe
\* is sent once (never two probes in flight) and the callers that probed
\* observe the same result.
C13_AsStated ==
  /\ Cardinality({c \in Callers : pc[c] = "probe"}) <= 1
  /\ \A c, d \in Callers :
       (/\ pc[c] = "done" /\ pc[d] = "done"
        /\ fr[c].op = "gce" /\ fr[d].op = "gce"
        /\ fr[c].probe # "none" /\ fr[d].probe # "none"
        /\ result[c].value \in {"true", "false"}
        /\ result[d].value \in {"true", "false"})
         => result[c].value = result[d].value

\* C14: when requests on one credential overlap while its token is expired,
\* at most one refresh request is in flight at any time.
C14_AsStated ==
  Cardinality({c \in Callers : rq[c].pc = "refreshing"}) <= 1

\* ------------------------------------------------------------------------
\* The well-known file step and the project id of a result (SpecResolver)
\* ------------------------------------------------------------------------
\* C15: a well-known file that is there but cannot be parsed or fails
\* validation does not abort getApplicationDefault: the call goes on to
\* platform detection.
C15_AsStated ==
  \A c \in Callers :
    (fr[c].op = "adc" /\ pc[c] = "done"
       /\ "wkFile" \in log[c] /\ "wkLoaded" \notin log[c])
      => fr[c].gce # "none"

\* C15 as the code has it: a getApplicationDefault call that opened the
\* well-known file and could not load it (not JSON, or not a valid
\* description) ends in that error, exactly as for the file the environment
\* variable names: it never reaches the probe and never writes the
\* credential cache. Only a missing file falls through (C16).
C15_BrokenWellKnownFileIsFatal ==
  \A c \in Callers :
    (fr[c].op = "adc" /\ "wkFile" \in log[c] /\ "wkLoaded" \notin log[c]) =>
      /\ pc[c] \in {"stream", "done", "crashed"}
      /\ pc[c] = "done" =>
           /\ result[c].status = "error"
           /\ result[c].err \notin {Unexpected("CouldNotLoad")}
           /\ fr[c].gce = "none"
      /\ log[c] \cap {"probe", "cacheWrite"} = {}
      /\ cachedCredential = NoCred

\* A call that failed on a well-known file that is not JSON.
C15_Witness ==
  \E c \in Callers :
    /\ fr[c].op = "adc" /\ pc[c] = "done" /\ result[c].status = "error"
    /\ "wkFile" \in log[c] /\ "envFile" \notin log[c]
    /\ fr[c].read = "badjson" /\ result[c].err = "SyntaxError"

\* The call returned the credential of a file: one it loaded, or the cached
\* one.
ReturnedFileCredential(c) ==
  result[c].status = "ok" /\ result[c].cred.kind \in {"JWT", "UserRefreshClient"}

ProjectIdIsChains(c) ==
  LET seen == fr[c].seen IN
  IF seen = <<>>
    THEN Truthy(result[c].projectId) /\ result[c].projectId = cachedProjectId
    ELSE /\ result[c].projectId = seen[Len(seen)].val
         /\ seen[1].src = "GCLOUD_PROJECT"
         /\ \A i \in 1..(Len(seen) - 1) : Falsy(seen[i].val)

\* The call loaded its credential from a file in this call (environment file
\* or well-known file) and returned it.
LoadedFromFile(c) ==
  /\ fr[c].op = "adc" /\ pc[c] = "done" /\ result[c].status = "ok"
  /\ "cacheWrite" \in log[c]

\* The call got its credential from platform detection and returned it.
LoadedFromDetection(c) ==
  /\ fr[c].op = "adc" /\ pc[c] = "done" /\ result[c].status = "ok"
  /\ result[c].cred = NewCompute

\* C17: every successful getApplicationDefault call, whichever source gave
\* the credential (environment file, well-known file or platform detection),
\* returns the projectId the project-id chain resolves.
C17_AsStated ==
  \A c \in Callers :
    (LoadedFromFile(c) \/ LoadedFromDetection(c)) => ProjectIdIsChains(c)

\* C17 as the code has it: a call that loaded its credential from either file
\* returns the projectId the chain resolves (so a set GCLOUD_PROJECT wins
\* over the file's own project_id unless a project id was memoized before);
\* a call that got its credential from platform detection consults no
\* project-id source and returns projectId null.
C17_ProjectIdBySource ==
  \A c \in Callers :
    /\ LoadedFromFile(c) =>
         /\ ProjectIdIsChains(c)
         /\ result[c].cred.kind \in {"JWT", "UserRefreshClient"}
    /\ LoadedFromDetection(c) =>
         /\ result[c].projectId = "null"
         /\ fr[c].seen = <<>>
         /\ "envProject" \notin log[c]

\* A call that took its credential from a well-known service-account file
\* carrying its own project_id, and its projectId from GCLOUD_PROJECT.
C17_Witness ==
  \E c \in Callers :
    /\ LoadedFromFile(c) /\ "wkLoaded" \in log[c]
    /\ Truthy(result[c].cred.projectId)
    /\ Len(fr[c].seen) = 1 /\ Truthy(fr[c].seen[1].val)
    /\ result[c].projectId = fr[c].seen[1].val
    /\ result[c].projectId # result[c].cred.projectId

\* ------------------------------------------------------------------------
\* The last two steps of the project-id chain (SpecResolver)
\* ------------------------------------------------------------------------
\* The project-id sources before the metadata service have all been consulted
\* by the call and were all empty.
FirstSourcesEmpty(c) ==
  /\ Len(fr[c].seen) >= 4
  /\ \A i \in 1..4 : Falsy(fr[c].seen[i].val)
  /\ fr[c].seen[4].src = "sdk"

\* C18: the metadata project-id request is in flight only when the detector
\* has already answered true on this resolver.
C18_AsStated ==
  \A c \in Callers : pc[c] = "pid_gce" => checkIsGCE = "true"

\* C18 as the code has it: the metadata project-id request is sent exactly
\* when the environment variables, the credential file and the gcloud command
\* have all yielded nothing; the stored detection result plays no part. The
\* call then ends with what the request yields.
C18_MetadataStepAlwaysTried ==
  \A c \in Callers :
    /\ pc[c] = "pid_gce" <=> (FirstSourcesEmpty(c) /\ Len(fr[c].seen) = 4)
    /\ "gceProject" \in log[c] <=> FirstSourcesEmpty(c)
    /\ Len(fr[c].seen) = 5 =>
         /\ fr[c].seen[5].src = "metadata"
         /\ pc[c] = "done" /\ result[c].status = "ok"
         /\ result[c].projectId = fr[c].seen[5].val

\* The request in flight on a resolver whose detector has answered false.
C18_Witness ==
  \E c \in Callers : pc[c] = "pid_gce" /\ checkIsGCE = "false"

\* C19: once the gcloud command has ended without a project (it failed,
\* printed nothing, printed text that is not JSON, or JSON without core or
\* without core.project), the call counts the step as empty, does not fail,
\* and sends the metadata project-id request; it ends with what that request
\* yields.
C19_SdkFailureIsNoProject ==
  \A c \in Callers :
    fr[c].sdk \in SdkFailures =>
      /\ FirstSourcesEmpty(c)
      /\ pc[c] \in {"pid_gce", "done"}
      /\ "gceProject" \in log[c]
      /\ result[c].status # "error"
      /\ pc[c] = "done" =>
           /\ result[c].status = "ok"
           /\ Len(fr[c].seen) = 5
           /\ fr[c].seen[5].src = "metadata"
           /\ result[c].projectId = fr[c].seen[5].val

\* A call whose gcloud command printed text that is not JSON and which got
\* its project id from the metadata service.
C19_Witness ==
  \E c \in Callers :
    /\ pc[c] = "done" /\ fr[c].sdk = "badjson"
    /\ result[c].status = "ok" /\ result[c].projectId = "pm"

\* ------------------------------------------------------------------------
\* Failed refreshes and failed probes (SpecClient)
\* ------------------------------------------------------------------------
\* A step that leaves the refresh of c's request failed or still unanswered.
RefreshNotDone(c) == rq[c].pc = "refreshing" /\ rq'[c].pc # "sent"

\* A step that leaves the probe of c's call failed with an error other than
\* ENOTFOUND, or still unanswered.
ProbeNotDone(c) ==
  /\ pc[c] = "probe"
  /\ \/ pc'[c] = "probe"
     \/ ProbeFails(fr'[c].probe) /\ fr'[c].probe # "ENOTFOUND"

\* C20: a step in which a refresh in flight fails, or stays unanswered,
\* leaves the credential's token fields as they were and issues no token; a
\* step in which a probe in flight fails with an error other than ENOTFOUND,
\* or stays unanswered, leaves the stored detection result as it was; and the
\* call that failed reports the error.
FailureLeavesStateStep ==
  \A c \in Callers :
    /\ RefreshNotDone(c) =>
         /\ credentials' = credentials /\ issued' = issued
         /\ rq'[c].pc = "done" => rq'[c].status = "error"
    /\ ProbeNotDone(c) =>
         /\ checkIsGCE' = checkIsGCE
         /\ pc'[c] = "done" =>
              /\ result'[c].status = "error" /\ fr'[c].gce = "threw"

C20_FailureLeavesState == [][FailureLeavesStateStep]_vars

\* A second request whose refresh failed while the token of the first was
\* still cached, and a probe that failed with ECONNRESET with nothing stored.
C20_Witness ==
  \E c \in Callers :
    /\ rq[c].pc = "done" /\ rq[c].status = "error" /\ rq[c].attempts = 0
    /\ rq[c].n = 2 /\ credentials.access_token # NoToken
    /\ isTokenExpired(credentials, now)
    /\ pc[c] = "done" /\ fr[c].probe = "ECONNRESET"
    /\ result[c].status = "error" /\ checkIsGCE = "undefined"

\* ------------------------------------------------------------------------
\* The Compute client: placeholder, messages, expiry (SpecCompute)
\* ------------------------------------------------------------------------
\* C21: until the token endpoint has issued a token, the client holds the
\* placeholder: the sentinel refresh token, no access token, an expiry that
\* has passed. Its first request() therefore finds the token expired, calls
\* the endpoint before it sends anything, and sends only the token the
\* endpoint returned, which is then the cached access token.
C21_FirstRequestRefreshes ==
  /\ issued = 0 =>
       /\ credentials.refresh_token = "compute-placeholder"
       /\ credentials.access_token = NoToken
       /\ isTokenExpired(credentials, now)
  /\ \A c \in Callers :
       LET r == rq[c] IN
       r.n = 1 =>
         /\ r.expiredAtStart /\ ~r.usableAtStart /\ r.tokenAtStart = NoToken
         /\ RefreshCallsBeforeFirst(r) = 1
         /\ r.attempts >= 1 => (r.got # <<>> /\ r.sent[1] = r.got[1])
         /\ r.got # <<>> =>
              /\ credentials.access_token = r.got[Len(r.got)]
              /\ credentials.refresh_token = "compute-placeholder"

\* The first request of a client, answered 200 with the token its one
\* refresh returned.
C21_Witness ==
  \E c \in Callers :
    /\ rq[c].n = 1 /\ rq[c].pc = "done" /\ rq[c].status = "ok"
    /\ rq[c].refreshCalls = 1 /\ rq[c].attempts = 1
    /\ credentials.access_token = rq[c].sent[1]
    /\ credentials.access_token # NoToken

\* The explanatory text of a status.
Helpful(status) == IF status = 403 THEN "Forbidden" ELSE "NotFound"

\* The request ended on a failed refresh (before its first attempt, or the
\* forced one of the retry) rather than on a failed attempt.
EndedOnRefresh(r) == r.attempts = 0 \/ (r.retry /\ r.attempts = 1)

\* C22: a request() that ends with a 403 or 404 reports the explanatory text
\* of that status followed by the message the failing call itself gave:
\* 'Could not refresh access token.' when the refresh failed, the transport's
\* message when an attempt failed.
C22_AsStated ==
  \A c \in Callers :
    LET r == rq[c] IN
    (r.pc = "done" /\ r.status = "error" /\ r.code \in {403, 404}) =>
      r.message = <<Helpful(r.code),
                    IF EndedOnRefresh(r) THEN "CouldNotRefresh" ELSE "body">>

\* C23: when the token endpoint has answered a refresh with a lifetime of
\* n >= 1 seconds, the token installed from that answer expires exactly n
\* seconds after the time of the answer, in milliseconds and with nothing
\* taken off, and it has no expires_in field left. (An answer with
\* expires_in 0 or without one is not covered here.)
C23_ExpiryIsNowPlusLifetime ==
  \A c \in Callers :
    LET r == rq[c] IN
    (r.got # <<>> /\ r.data.expires_in >= 1
       /\ credentials.access_token = r.got[Len(r.got)]) =>
      /\ credentials.expiry_date = r.data.at + r.data.expires_in * MsPerSecond
      /\ credentials.expires_in = Absent

\* A token installed two seconds after the client was made, with a lifetime
\* of two seconds.
C23_Witness ==
  \E c \in Callers :
    /\ rq[c].got # <<>> /\ rq[c].data.expires_in = MaxExpiresIn
    /\ rq[c].data.at > MsPerSecond
    /\ credentials.access_token = rq[c].got[Len(rq[c].got)]
    /\ credentials.expiry_date = rq[c].data.at + MaxExpiresIn * MsPerSecond

\* ------------------------------------------------------------------------
\* Loading a UserRefreshClient (SpecRefreshClient)
\* ------------------------------------------------------------------------
\* A description of type authorized_user with a client_id, a client_secret
\* and a refresh_token that are not empty.
WellFormedUser(json) ==
  /\ json # NullJson /\ json.type = "authorized_user"
  /\ Truthy(json.client_id) /\ Truthy(json.client_secret)
  /\ Truthy(json.refresh_token)

\* C24: after fromJSON on a well-formed authorized_user description, or
\* fromStream on its text, the call has succeeded (nothing thrown, no error
\* handed to the callback) and _clientId, _clientSecret and _refreshToken are
\* the description's client_id, client_secret and refresh_token.
C24_RoundTrip ==
  (refreshCall.op \in {"fromJSON", "fromStream"}
     /\ WellFormedUser(refreshCall.json)
     /\ (refreshCall.op = "fromStream" =>
           refreshCall.text = JSON_stringify(refreshCall.json))) =>
    /\ refreshCall.ok /\ ~refreshCall.threw
    /\ refreshCall.callbacks \in {<<>>, <<"ok">>}
    /\ refreshClient._clientId = refreshCall.json.client_id
    /\ refreshClient._clientSecret = refreshCall.json.client_secret
    /\ refreshClient._refreshToken = refreshCall.json.refresh_token

\* A client loaded from a stream, after it had been loaded with another
\* client id and refresh token.
C24_Witness ==
  /\ refreshCall.op = "fromStream" /\ WellFormedUser(refreshCall.json)
  /\ refreshCall.text = JSON_stringify(refreshCall.json)
  /\ refreshCall.before._clientId = "id1"
  /\ refreshCall.before._refreshToken = "r1"
  /\ refreshClient._clientId = "id2" /\ refreshClient._refreshToken = "r2"

\* C25: after fromJSON on a description that is null, has another type than
\* authorized_user, or lacks client_id, client_secret or refresh_token, the
\* call has failed (it threw, or handed the error to the callback) and
\* _clientId, _clientSecret, _refreshToken and credentials.refresh_token are
\* what they were before the call, whether or not the instance had been
\* loaded before.
C25_FailedLoadCommitsNothing ==
  (refreshCall.op = "fromJSON" /\ ~WellFormedUser(refreshCall.json)) =>
    /\ ~refreshCall.ok /\ refreshCall.err # "none"
    /\ \/ refreshCall.threw
       \/ refreshCall.callbacks # <<>> /\ refreshCall.callbacks[1] = "err"
    /\ refreshClient = refreshCall.before

\* A loaded client given a description with another client id and no
\* client_secret.
C25_Witness ==
  /\ refreshCall.op = "fromJSON" /\ refreshCall.err = "NoClientSecret"
  /\ refreshCall.before._clientId = "id1"
  /\ refreshCall.json.client_id = "id2"
  /\ refreshClient._clientId = "id1" /\ refreshClient._refreshToken = "r1"

\* ------------------------------------------------------------------------
\* C26  JWTAccess.fromJSON, in either form: a description that is null or
\* lacks client_email or private_key makes the call report a failure to its
\* caller (an error thrown, or an error handed to a callback) and leaves
\* email, key and projectId as they were; a description with both fields makes
\* it succeed and sets email, key and projectId to the description's
\* client_email, private_key and project_id.
JwtRejected(json) ==
  \/ json = NullJson
  \/ Falsy(json.client_email)
  \/ Falsy(json.private_key)

JwtReported(call) == call.threw \/ call.callbacks = <<"err">>

C26_AsStated ==
  jwtCall.op = "fromJSON" =>
    IF JwtRejected(jwtCall.json)
    THEN JwtReported(jwtCall) /\ jwtAccess = jwtCall.before
    ELSE /\ jwtCall.ok /\ ~JwtReported(jwtCall)
         /\ jwtAccess = [email |-> jwtCall.json.client_email,
                         key |-> jwtCall.json.private_key,
                         projectId |-> jwtCall.json.project_id]

\* ------------------------------------------------------------------------
\* C27  getRequestMetadata(u), as stated: on every JWTAccess instance it
\* returns an Authorization header 'Bearer ' + a signed JWT whose payload has
\* iss = sub = the instance's email, aud = u, iat = the time of the call in
\* whole seconds and exp = iat + 3600.
StatedHeader(call) ==
  LET payload == call.header.jwt.payload IN
  /\ call.header.scheme = "Bearer"
  /\ call.header.jwt.alg = "RS256"
  /\ call.header.jwt.secret = call.before.key
  /\ payload.iss = call.before.email
  /\ payload.sub = call.before.email
  /\ payload.aud = call.uri
  /\ payload.iat * MsPerSecond <= call.at
  /\ call.at < (payload.iat + 1) * MsPerSecond
  /\ payload.exp = payload.iat + 3600

C27_AsStated ==
  jwtCall.op = "getRequestMetadata" => StatedHeader(jwtCall)

\* C27, amended: on every instance that holds a key the call returns that
\* header; on an instance without a key signing fails, the error is thrown
\* or handed to the callback, and no header is returned.
C27_SignedWhenKeyed ==
  jwtCall.op = "getRequestMetadata" =>
    IF Truthy(jwtCall.before.key)
    THEN jwtCall.ok /\ ~JwtReported(jwtCall) /\ StatedHeader(jwtCall)
    ELSE ~jwtCall.ok /\ JwtReported(jwtCall) /\ jwtCall.header = NoHeader

C27_Witness ==
  /\ jwtCall.op = "getRequestMetadata"
  /\ jwtCall.ok
  /\ jwtCall.uri = "http://bar"
  /\ jwtCall.before.email = "b@sa"
  /\ jwtCall.at % MsPerSecond # 0
  /\ jwtCall.header.jwt.payload.exp = 3602

\* ------------------------------------------------------------------------
\* C28  JWTAccess never caches: every getRequestMetadata call calls jws.sign
\* exactly once, the token it returns has the URI of that very call as its
\* aud, whatever was asked before, and the call leaves email, key and
\* projectId as they were.
NoCachingStep ==
  asked' # asked =>
    /\ signed' = signed + 1
    /\ jwtCall'.signs = 1
    /\ jwtCall'.ok => jwtCall'.header.jwt.payload.aud = jwtCall'.uri
    /\ jwtAccess' = jwtAccess

C28_NeverCaches == [][NoCachingStep]_vars

\* Two calls in a row with different URIs, both answered.
C28_Witness ==
  /\ jwtCall.op = "getRequestMetadata"
  /\ jwtCall.ok
  /\ asked = 2
  /\ signed = 2
  /\ jwtCall.earlier # NoHeader
  /\ jwtCall.earlier.jwt.payload.aud = "http://foo"
  /\ jwtCall.header.jwt.payload.aud = "http://bar"

\* ------------------------------------------------------------------------
\* C29  A LoginTicket after construction, as stated: whatever getters are
\* called, the ticket keeps the envelope and the payload its constructor was
\* given, getAttributes returns exactly that pair, and getUserId returns
\* payload.sub when the payload exists and has a sub claim, otherwise null.
TicketKept ==
  /\ ticket.envelope = ticketGiven.env
  /\ ticket.payload = ticketGiven.pay
  /\ ticketCall.op = "getAttributes" =>
       /\ ticketCall.attributes.envelope = ticketGiven.env
       /\ ticketCall.attributes.payload = ticketGiven.pay
  /\ ticketCall.op = "getEnvelope" => ticketCall.text = ticketGiven.env
  /\ ticketCall.op = "getPayload" => ticketCall.payload = ticketGiven.pay

C29_AsStated ==
  /\ TicketKept
  /\ ticketCall.op = "getUserId" =>
       ticketCall.text =
         IF ticketGiven.pay.kind = "object" /\ ticketGiven.pay.sub # "undefined"
         THEN ticketGiven.pay.sub ELSE "null"

\* C29, amended: the same, getUserId returning payload.sub when the payload
\* has a sub claim that is not empty, and null otherwise, an empty sub
\* included.
C29_ImmutableTicket ==
  /\ TicketKept
  /\ ticketCall.op = "getUserId" =>
       ticketCall.text =
         IF /\ ticketGiven.pay.kind = "object"
            /\ ticketGiven.pay.sub \notin {"undefined", ""}
         THEN ticketGiven.pay.sub ELSE "null"

C29_Witness ==
  /\ ticketCall.op = "getUserId"
  /\ ticketCall.text = "u2"
  /\ ticketGiven.env = "e1"
  /\ ticketGiven.pay.aud = "a2"

\* ------------------------------------------------------------------------
\* C30  GoogleAuth.fromJSON selects the variant from the description's type
\* alone: type 'authorized_user' gives a UserRefreshClient or one of its
\* validation errors, whatever other fields the description carries; every
\* other type, missing and unrecognized ones included, gives the JWT client,
\* which succeeds exactly when client_email and private_key are present; and
\* a returned client keeps its kind when it is loaded again.
UserErrors == {"NotAuthorizedUser", "NoClientId", "NoClientSecret",
               "NoRefreshToken"}

JwtErrors == {"NoClientEmail", "NoPrivateKey"}

SelectedByType ==
  (madeCall.op = "fromJSON" /\ madeCall.json # NullJson) =>
    IF madeCall.json.type = "authorized_user"
    THEN IF madeCall.ok THEN made.kind = "UserRefreshClient"
                        ELSE made = NoCred /\ madeCall.err \in UserErrors
    ELSE /\ madeCall.ok <=> (/\ Truthy(madeCall.json.client_email)
                             /\ Truthy(madeCall.json.private_key))
         /\ IF madeCall.ok THEN made.kind = "JWT"
                           ELSE made = NoCred /\ madeCall.err \in JwtErrors

KindKept ==
  madeCall.op = "reload" =>
    /\ made.kind = madeCall.before.kind
    /\ made.kind \in {"UserRefreshClient", "JWT"}

C30_VariantByTypeAlone == SelectedByType /\ KindKept

\* A JWT client made from a description of an unrecognized type that also
\* carries every field of a user credential.
C30_Witness ==
  /\ madeCall.op = "fromJSON"
  /\ madeCall.ok
  /\ madeCall.json.type = "external"
  /\ Truthy(madeCall.json.client_id)
  /\ Truthy(madeCall.json.refresh_token)
  /\ made.kind = "JWT"

\* ------------------------------------------------------------------------
\* C31  A GoogleAuth.fromJSON or fromStream call that fails leaves
\* jsonContent as it was, so that a getCredentials which answers from
\* jsonContent answers with the client_email and private_key of the
\* description accepted last, never with those of a rejected one.
AnsweredFromDescription(c) ==
  /\ fr[c].op = "creds" /\ pc[c] = "done" /\ log[c] = {}
  /\ result[c].status = "ok"

C31_AsStated ==
  /\ (madeCall.op \in {"fromJSON", "fromStream"} /\ ~madeCall.ok) =>
       jsonContent = loads.before
  /\ \A c \in Callers :
       AnsweredFromDescription(c) =>
         /\ loads.accepted # NullJson
         /\ result[c].cred = CredentialBody(loads.accepted.client_email,
                                            loads.accepted.private_key)

\* ------------------------------------------------------------------------
\* C32  Every loader call that is given a callback (UserRefreshClient.fromJSON,
\* GoogleAuth.fromJSON, JWTAccess.fromJSON in its callback form) calls it
\* exactly once: with an error when the load failed, without one when it
\* succeeded.
OnceFor(ok, callbacks) ==
  callbacks # <<>> => callbacks = IF ok THEN <<"ok">> ELSE <<"err">>

RefreshCallbackOnce ==
  refreshCall.op = "fromJSON" => OnceFor(refreshCall.ok, refreshCall.callbacks)

LoaderCallbackOnce ==
  madeCall.op = "fromJSON" => OnceFor(madeCall.ok, madeCall.callbacks)

JwtCallbackOnce ==
  jwtCall.op = "fromJSON" => OnceFor(jwtCall.ok, jwtCall.callbacks)

C32_AsStated ==
  RefreshCallbackOnce /\ LoaderCallbackOnce /\ JwtCallbackOnce

\* ------------------------------------------------------------------------
\* C33  Once a getApplicationDefault call has succeeded through the
\* environment-variable file or the well-known file, its credential is the
\* cached one, and every getApplicationDefault call that starts afterwards
\* ends at once with that very credential, having read no variable and no
\* file and sent no probe, whatever has become of the environment; the cache
\* is left as it was.
SucceededThroughFile(c) ==
  /\ fr[c].op = "adc" /\ pc[c] = "done" /\ result[c].status = "ok"
  /\ log[c] \cap {"envLoaded", "wkLoaded"} # {}

StartsAdc(c) ==
  /\ pc[c] \in {"idle", "done"}
  /\ fr'[c].op = "adc"
  /\ <<pc[c], fr[c], result[c], log[c]>>' # <<pc[c], fr[c], result[c], log[c]>>

CachedCredentialStep ==
  \A c \in Callers :
    /\ SucceededThroughFile(c) =>
         cachedCredential # NoCred /\ cachedCredential = result[c].cred
    /\ (cachedCredential # NoCred /\ StartsAdc(c)) =>
         /\ pc'[c] = "done"
         /\ result'[c].status = "ok"
         /\ result'[c].cred = cachedCredential
         /\ log'[c] = {}
         /\ cachedCredential' = cachedCredential

C33_CachedCredentialWins == [][CachedCredentialStep]_vars

\* A call answered with the credential of a file the environment no longer
\* names.
C33_Witness ==
  \E c \in Callers :
    /\ fr[c].op = "adc" /\ pc[c] = "done" /\ log[c] = {}
    /\ result[c].status = "ok"
    /\ result[c].cred = GoogleAuth_fromJSON(Desc("env_sa"), NullJson).client
    /\ Falsy(env.credPath)
    /\ env.wkFile = "wk_user"
    /\ envChanges = 1

\* ------------------------------------------------------------------------
\* C34  As stated: when a getApplicationDefault call that stored a file's
\* credential ends while the other caller holds the answer of a call served
\* from the cache with that credential, the two answers carry the same
\* projectId; and no call has returned a file's credential with an undefined
\* projectId while the call that stored the credential is still resolving
\* the project id.
FileDerived(cred) == cred # NoCred /\ cred.kind # "Compute"

ReturnedFile(c) ==
  /\ fr[c].op = "adc" /\ pc[c] = "done" /\ result[c].status = "ok"
  /\ FileDerived(result[c].cred)

StillResolving(d) ==
  /\ fr[d].op = "adc"
  /\ pc[d] \in {"pid_afterFile", "pid_sdk", "pid_gce", "stream"}
  /\ FileDerived(fr[d].adcCred)

PairedWithUnresolved ==
  \E c, d \in Callers :
    /\ c # d
    /\ ReturnedFile(c) /\ log[c] = {}
    /\ StillResolving(d) /\ fr[d].adcCred = result[c].cred
    /\ result[c].projectId = "undefined"

OverlapAgrees ==
  \A c, d \in Callers :
    (/\ c # d
     /\ ReturnedFile(c) /\ log[c] = {}
     /\ StillResolving(d) /\ fr[d].adcCred = result[c].cred
     /\ pc'[d] = "done" /\ result'[d].status = "ok") =>
      /\ result'[d].cred = result[c].cred
      /\ result'[d].projectId = result[c].projectId

C34_AsStated == [][OverlapAgrees /\ ~PairedWithUnresolved]_vars

\* ------------------------------------------------------------------------
\* C35  cachedCredential is written once, by a getApplicationDefault call
\* that has just loaded a credential from the environment-variable file or
\* the well-known file, and that call succeeds with it: whenever the last
\* call ended is a getApplicationDefault and cachedCredential is set, the
\* call returned the cached credential. A success through platform detection
\* leaves cachedCredential null, ends a call that went through the chain
\* (it is not answered where it starts), and returns a new Compute client
\* that holds no access token and the placeholder with the expiry of the
\* past.
CacheWrittenFromFile ==
  cachedCredential' # cachedCredential =>
    /\ cachedCredential = NoCred
    /\ \E c \in Callers :
         /\ fr[c].op = "adc"
         /\ pc[c] \in {"adc_afterEnv", "adc_afterWK"}
         /\ FileDerived(fr[c].loaded)
         /\ cachedCredential' = fr[c].loaded

CachedMeansSucceeded ==
  \A c \in Callers :
    (fr[c].op = "adc" /\ pc[c] \in {"done", "crashed"}
       /\ cachedCredential # NoCred) =>
      /\ pc[c] = "done" /\ result[c].status = "ok"
      /\ result[c].cred = cachedCredential

EndsOnPlatform(c) ==
  /\ pc[c] # "done" /\ pc'[c] = "done"
  /\ fr'[c].op = "adc" /\ result'[c].status = "ok"
  /\ result'[c].cred.kind = "Compute"

DetectionNeverCached ==
  \A c \in Callers :
    EndsOnPlatform(c) =>
      /\ cachedCredential = NoCred /\ cachedCredential' = NoCred
      /\ pc[c] \in {"probe", "adc_afterWK"}
      /\ result'[c].cred = NewCompute
      /\ NewCompute.refreshToken = Compute_new.refresh_token
      /\ Compute_new.access_token = NoToken
      /\ isTokenExpired(Compute_new, now)

C35_CacheOnlyFromFiles ==
  [][CacheWrittenFromFile /\ CachedMeansSucceeded' /\ DetectionNeverCached]_vars

\* A second success through platform detection: the detection result is
\* memoized, the credential is not.
C35_Witness ==
  \E c \in Callers :
    /\ fr[c].op = "adc" /\ pc[c] = "done" /\ result[c].status = "ok"
    /\ result[c].cred = NewCompute
    /\ checkIsGCE = "true" /\ "probe" \notin log[c]
    /\ cachedCredential = NoCred

\* ------------------------------------------------------------------------
\* C36  As stated: once a getApplicationDefault call has failed with 'could
\* not load the default credentials', the next call of the caller re-reads
\* GOOGLE_APPLICATION_CREDENTIALS (it opens the file when the variable names
\* one), a call fails that way only when no file gave it a credential, and
\* no probe is sent again: the detection result is memoized as false and
\* stays so.
FailedNotOnPlatform(c) ==
  /\ fr[c].op = "adc" /\ pc[c] = "done" /\ result[c].status = "error"
  /\ result[c].err = Unexpected("CouldNotLoad")

RechecksFiles ==
  \A c \in Callers :
    /\ (FailedNotOnPlatform(c) /\ StartsAdc(c) /\ Truthy(env.credPath)) =>
         "envFile" \in log'[c]
    /\ FailedNotOnPlatform(c) =>
         log[c] \cap {"envLoaded", "wkLoaded"} = {}

ProbeNotReissued ==
  \A c \in Callers :
    FailedNotOnPlatform(c) => pc'[c] # "probe"

FalseStaysMemoized ==
  /\ \A c \in Callers : FailedNotOnPlatform(c) => checkIsGCE = "false"
  /\ checkIsGCE = "false" => checkIsGCE' = "false"

C36_AsStated ==
  [][RechecksFiles /\ ProbeNotReissued /\ FalseStaysMemoized]_vars

\* ------------------------------------------------------------------------
\* C37  As stated: whenever a probe is answered and _checkIsGCE returns
\* normally, the stored detection result is true or false, it is the value
\* returned, and it is true exactly when the response carried the header
\* metadata-flavor: Google, responses without headers and empty responses
\* included.
ReturnsNormally(c) ==
  /\ pc[c] = "probe" /\ pc'[c] = "done"
  /\ fr'[c].op = "gce" /\ result'[c].status = "ok"

DetectionIsBoolean ==
  \A c \in Callers :
    ReturnsNormally(c) =>
      /\ checkIsGCE' \in {"true", "false"}
      /\ checkIsGCE' = result'[c].value
      /\ checkIsGCE' = "true" <=> fr'[c].probe = "google"

C37_AsStated == [][DetectionIsBoolean]_vars

\* ------------------------------------------------------------------------
\* C38  As stated: the tokens Compute.refreshToken returns for a successful
\* answer of the token endpoint carry an expiry_date and no expires_in,
\* whatever expires_in the answer held: a lifetime, 0, or none.
RefreshSucceeds(c) == rq[c].pc = "refreshing" /\ issued' = issued + 1

TokensOf(c) ==
  Compute_refreshToken([access_token |-> issued',
                        expires_in |-> rq'[c].data.expires_in],
                       rq'[c].data.at)

AbsoluteExpiryOnly ==
  \A c \in Callers :
    RefreshSucceeds(c) =>
      /\ TokensOf(c).expiry_date # NoExpiry
      /\ TokensOf(c).expires_in = Absent

C38_AsStated == [][AbsoluteExpiryOnly]_vars

\* ------------------------------------------------------------------------
\* C39  getCredentials with a description saved on the resolver ends where it
\* starts, without probe or listing request, with that description's
\* client_email and private_key. Without one it asks the platform detection:
\* a falsy answer ends it with 'Unknown error.' before any listing request;
\* a true answer is followed by the listing request, and the call returns
\* the default account's email and nothing else when the listing has one
\* and fails with 'Failure from metadata server.' when it has none.
StartsCreds(c) ==
  /\ pc[c] \in {"idle", "done"}
  /\ fr'[c].op = "creds"
  /\ <<pc[c], fr[c], result[c], log[c]>>' # <<pc[c], fr[c], result[c], log[c]>>

FromDescription(c) ==
  (StartsCreds(c) /\ jsonContent # NullJson) =>
    /\ pc'[c] = "done" /\ result'[c].status = "ok"
    /\ result'[c].cred = CredentialBody(jsonContent.client_email,
                                        jsonContent.private_key)
    /\ log'[c] = {}

DetectionAnswers(c) ==
  \/ StartsCreds(c) /\ jsonContent = NullJson /\ checkIsGCE # "undefined"
  \/ fr[c].op = "creds" /\ pc[c] = "probe" /\ pc'[c] # "probe"

FromPlatform(c) ==
  /\ (StartsCreds(c) /\ jsonContent = NullJson) =>
       IF checkIsGCE = "undefined"
         THEN pc'[c] = "probe" /\ log'[c] = {"probe"}
         ELSE fr'[c].gce = checkIsGCE /\ "probe" \notin log'[c]
  /\ DetectionAnswers(c) =>
       IF fr'[c].gce = "true"
         THEN pc'[c] = "creds_listing" /\ "listing" \in log'[c]
         ELSE /\ pc'[c] = "done" /\ result'[c].status = "error"
              /\ "listing" \notin log'[c]
              /\ fr'[c].gce # "threw" => result'[c].err = "UnknownError"
  /\ (fr[c].op = "creds" /\ pc[c] = "creds_listing"
        /\ pc'[c] # "creds_listing") =>
       /\ pc'[c] = "done" /\ fr'[c].gce = "true"
       /\ IF fr'[c].listing = "m@sa"
            THEN /\ result'[c].status = "ok"
                 /\ result'[c].cred = CredentialBody("m@sa", "undefined")
            ELSE /\ result'[c].status = "error"
                 /\ fr'[c].listing # "err" =>
                      result'[c].err = "MetadataFailure"

C39_DescriptionThenPlatform ==
  [][\A c \in Callers : FromDescription(c) /\ FromPlatform(c)]_vars

\* A call answered from the platform's listing, and a later one answered
\* from a description loaded since.
C39_Witness ==
  /\ AnsweredFromDescription("c1")
  /\ result["c1"].cred = CredentialBody("a@sa", "k1")
  /\ checkIsGCE = "true"
  /\ fr["c1"].gce = "none"

\* A call that failed for want of a default email in the listing.
C39_WitnessNoEmail ==
  /\ fr["c1"].op = "creds" /\ pc["c1"] = "done"
  /\ fr["c1"].listing = "noemail"
  /\ result["c1"].err = "MetadataFailure"

\* ------------------------------------------------------------------------
\* C40  As stated: the promise of a fromStream call is never settled twice,
\* it is rejected for a null stream, for text that is not JSON and for a
\* description its class rejects and resolved otherwise, and every call
\* whose stream ends or emits an error settles in the end.
StreamLoadOk ==
  CASE streamCall.who = "UserRefreshClient" ->
         refreshCall.text # Garbage /\ WellFormedUser(refreshCall.json)
    [] streamCall.who = "JWTAccess" -> jwtCall.ok
    [] OTHER -> madeCall.ok

SettlesRight ==
  /\ streamCall.settles <= 1
  /\ streamCall.state = "settled" =>
       /\ streamCall.settles = 1
       /\ streamCall.outcome = "resolved" <=>
            (streamCall.stream = "ends" /\ StreamLoadOk)

C40_AsStated ==
  /\ []SettlesRight
  /\ (streamCall.state = "pending") ~> (streamCall.settles = 1)

====
